---- MODULE Spec2Model ----
(***************************************************************************)
(* Rufux: model of the device safety classifier (device.c), the partition  *)
(* engine (partition.c), the asynchronous and synchronous image writers    *)
(* (iso_writer.c) and the pipeline of the main window (window.c).          *)
(*                                                                         *)
(* C strings are sequences of one-character strings; NUL is the            *)
(* terminator read past the end of a string.                               *)
(***************************************************************************)
EXTENDS Integers, Sequences, FiniteSets, TLC

VARIABLES
    procMounts,     \* /proc/mounts: sequence of [fsname, dir]
    devices,        \* the device_list_t last returned by device_enumerate
    writer,         \* struct iso_writer: state, dd_pid, cancel_requested, thread_running, iso_size
    mutex,          \* writer->mutex: 0 free, Main the calling thread, j > 0 worker thread j
    call,           \* the calling thread's position in iso_writer_start/_cancel/_is_running/_get_state
    wk,             \* worker threads (writer_thread), one per accepted start: position and locals
    dd,             \* the copy processes, by pid: status and pending SIGTERM
    sectors,        \* the device's cumulative sectors-written counter
    notes,          \* per live job, the callbacks invoked so far (progress and completion)
    syncs,          \* live jobs for which sync() was issued
    kills,          \* SIGTERMs sent by the last step: by whom, to which pid, in which process status
    acc,            \* accesses to the writer's mutable fields made by the last step
    cancelW,        \* live jobs for which cancellation was requested while the state was Writing
    sy,             \* iso_write_sync: position, locals and return value of the running call
    disk,           \* the partition table the running partition call has written: label and entries
    pt,             \* the running partition_create_* call: position, arguments, return value
    ui,             \* the main window, followed to the end of its first job: position
                    \* (ready, dialog, running, finished), operation_running, status line
    op,             \* write_op_t of the requested job and the position of write_thread_func
    idleq,          \* sources posted with g_idle_add and not yet dispatched
    delivered,      \* idle callbacks the main loop has run for the current job
    calls,          \* calls that changed the device, with the device's mount state at the call
    racer,          \* a second thread calling iso_writer_start: position and return value
    nthreads,       \* writer threads created and not yet returned
    fm,             \* the running format_partition call: position, child status, return value
    xt,             \* the running iso_extract_to_partition call: position, mount state, return value
    px,             \* a tool being launched: who asks, where pkexec is, what was executed
    pp,             \* a call of partition_get_path: its arguments and the string returned
    udev,           \* the disks a udev scan reports, in scan order
    pf              \* a call of build_mkfs_args, partition_add or partition_add_efi on its
                    \* own: the arguments and what it built

devVars == <<procMounts, devices>>
writerVars == <<writer, mutex, call, wk, dd, sectors, notes, syncs, kills, acc,
                cancelW, sy>>
partVars == <<disk, pt>>
uiVars == <<ui, op, idleq, delivered>>
moreVars == <<px, pp, udev, pf>>
extVars == <<racer, nthreads, fm, xt, moreVars>>
vars == <<procMounts, devices, writer, mutex, call, wk, dd, sectors, notes,
          syncs, kills, acc, cancelW, sy, disk, pt, ui, op, idleq, delivered, calls,
          racer, nthreads, fm, xt, px, pp, udev, pf>>

----------------------------------------------------------------------------
(* C string helpers *)

NUL == "\\0"

At(s, i) == IF i <= Len(s) THEN s[i] ELSE NUL

\* strcmp(a, b) == 0
strcmp0(a, b) == \A i \in 1..(Len(a) + 1) : At(a, i) = At(b, i)

\* strncmp(a, b, n) == 0 : compare at most n characters, stopping at NUL
RECURSIVE strncmpFrom(_, _, _, _)
strncmpFrom(a, b, i, n) ==
    IF i > n THEN TRUE
    ELSE IF At(a, i) /= At(b, i) THEN FALSE
    ELSE IF At(a, i) = NUL THEN TRUE
    ELSE strncmpFrom(a, b, i + 1, n)

strncmp0(a, b, n) == strncmpFrom(a, b, 1, n)

\* strrchr(s, '/') : index of the last '/', 0 when there is none
strrchrSlash(s) ==
    LET idx == {i \in 1..Len(s) : s[i] = "/"}
    IN IF idx = {} THEN 0 ELSE CHOOSE i \in idx : \A j \in idx : j <= i

\* base = strrchr(p, '/'); base = base ? base + 1 : p
BaseName(p) == SubSeq(p, strrchrSlash(p) + 1, Len(p))

S_root == <<"/">>
S_boot == <<"/", "b", "o", "o", "t">>
S_bootefi == <<"/", "b", "o", "o", "t", "/", "e", "f", "i">>
S_home == <<"/", "h", "o", "m", "e">>
S_homeSlash == <<"/", "h", "o", "m", "e", "/">>
S_homeU == <<"/", "h", "o", "m", "e", "/", "u">>
S_mnt == <<"/", "m", "n", "t">>
S_loop == <<"l", "o", "o", "p">>
S_usb == <<"u", "s", "b">>
S_sda == <<"s", "d", "a">>
S_sdb == <<"s", "d", "b">>
S_loop0 == <<"l", "o", "o", "p", "0">>
S_dev == <<"/", "d", "e", "v", "/">>

----------------------------------------------------------------------------
(* device.c *)

MaxMounts == 2
MAX_DEVICES == 64

forbidden_mounts == <<S_root, S_boot, S_bootefi, S_home>>

MiB == 1024 * 1024

\* the disks udev reports, in scan order; id_bus <<>> stands for a NULL property
UdevDisks == <<
    [sysname |-> S_sda, devnode |-> S_dev \o S_sda, id_bus |-> <<"a", "t", "a">>, size |-> 128 * MiB],
    [sysname |-> S_loop0, devnode |-> S_dev \o S_loop0, id_bus |-> <<>>, size |-> MiB],
    [sysname |-> S_sdb, devnode |-> S_dev \o S_sdb, id_bus |-> S_usb, size |-> 512 * MiB] >>

\* what a udev scan may report besides: a disk on each bus, a disk without the
\* ID_BUS property, and loop, ram and zram disks that carry ID_BUS=usb
MaxScan == 1
ScanDisks == {
    [sysname |-> S_sda, devnode |-> S_dev \o S_sda, id_bus |-> <<"a", "t", "a">>, size |-> 128 * MiB],
    [sysname |-> S_sdb, devnode |-> S_dev \o S_sdb, id_bus |-> S_usb, size |-> 512 * MiB],
    [sysname |-> <<"s", "d", "c">>, devnode |-> S_dev \o <<"s", "d", "c">>, id_bus |-> <<>>, size |-> MiB],
    [sysname |-> S_loop0, devnode |-> S_dev \o S_loop0, id_bus |-> S_usb, size |-> MiB],
    [sysname |-> <<"r", "a", "m", "0">>, devnode |-> S_dev \o <<"r", "a", "m", "0">>, id_bus |-> S_usb, size |-> MiB],
    [sysname |-> <<"z", "r", "a", "m", "0">>, devnode |-> S_dev \o <<"z", "r", "a", "m", "0">>, id_bus |-> S_usb, size |-> MiB] }

\* a hub of USB disks: sdb, then sdaa, sdab, ... two more than the list holds
HubDisks ==
    LET abc == <<"a", "b", "c", "d", "e", "f", "g", "h", "i", "j", "k", "l", "m",
                 "n", "o", "p", "q", "r", "s", "t", "u", "v", "w", "x", "y", "z">>
        name(i) == <<"s", "d", abc[((i - 1) \div 26) + 1], abc[((i - 1) % 26) + 1]>>
    IN <<[sysname |-> S_sdb, devnode |-> S_dev \o S_sdb, id_bus |-> S_usb, size |-> 512 * MiB]>>
       \o [i \in 1..(MAX_DEVICES + 1) |->
             [sysname |-> name(i), devnode |-> S_dev \o name(i), id_bus |-> S_usb, size |-> MiB]]

UdevScans == UNION {[1..n -> ScanDisks] : n \in 0..MaxScan} \cup {HubDisks}

\* get_device_size: the capacity in bytes of the disk behind a device path
DevSize(path) ==
    LET k == CHOOSE i \in 1..Len(UdevDisks) : UdevDisks[i].devnode = path
    IN UdevDisks[k].size

\* get_mountpoints: the mnt_dir of every /proc/mounts entry whose source base
\* name starts with the device's base name
RECURSIVE get_mountpoints_from(_, _, _)
get_mountpoints_from(base, table, i) ==
    IF i > Len(table) THEN <<>>
    ELSE LET mnt_base == BaseName(table[i].fsname)
             rest == get_mountpoints_from(base, table, i + 1)
         IN IF strncmp0(mnt_base, base, Len(base))
            THEN <<table[i].dir>> \o rest
            ELSE rest

get_mountpoints(device_path, table) ==
    get_mountpoints_from(BaseName(device_path), table, 1)

\* has_forbidden_mount with the "/home/" prefix test left out
has_forbidden_mount_noHomePrefix(mounts) ==
    \E i \in 1..Len(mounts) : \E j \in 1..Len(forbidden_mounts) :
        strcmp0(mounts[i], forbidden_mounts[j])

\* has_forbidden_mount: a NULL list (here the empty list) has none
has_forbidden_mount(mounts) ==
    /\ mounts /= <<>>
    /\ \E i \in 1..Len(mounts) : \E j \in 1..Len(forbidden_mounts) :
          \/ strcmp0(mounts[i], forbidden_mounts[j])
          \/ strncmp0(mounts[i], S_homeSlash, 6)

device_is_system_drive(dev) == has_forbidden_mount(dev.mountpoints)

\* the tests of device_enumerate on one entry of the scan (lines 223-249):
\* not a loop, ram or zram disk, ID_BUS is "usb", no forbidden mountpoint
enumerate_accepts(u, table) ==
    /\ ~(\/ strncmp0(u.sysname, S_loop, 4)
         \/ strncmp0(u.sysname, <<"r", "a", "m">>, 3)
         \/ strncmp0(u.sysname, <<"z", "r", "a", "m">>, 4))
    /\ ~(u.id_bus = <<>> \/ ~strcmp0(u.id_bus, S_usb))
    /\ ~has_forbidden_mount(get_mountpoints(u.devnode, table))

\* the device_info_t filled in for an entry that passed (lines 251-264)
device_info(u, table) ==
    LET mounts == get_mountpoints(u.devnode, table)
    IN [name |-> u.sysname, path |-> u.devnode, size |-> u.size, is_usb |-> TRUE,
        mountpoints |-> mounts, mountpoint_count |-> Len(mounts)]

\* device_enumerate with the test of the count made after the entry is stored
device_enumerate_lateBreak(table) ==
    LET passed == SelectSeq(udev, LAMBDA u : enumerate_accepts(u, table))
        n == IF Len(passed) < MAX_DEVICES + 1 THEN Len(passed) ELSE MAX_DEVICES + 1
    IN [i \in 1..n |-> device_info(passed[i], table)]

\* device_enumerate (lines 212-277): the loop over the scan stores every entry
\* that passes and breaks when the list holds MAX_DEVICES, so the list is the
\* first MAX_DEVICES entries that pass, in scan order
device_enumerate(table) ==
    LET passed == SelectSeq(udev, LAMBDA u : enumerate_accepts(u, table))
        n == IF Len(passed) < MAX_DEVICES THEN Len(passed) ELSE MAX_DEVICES
    IN [i \in 1..n |-> device_info(passed[i], table)]

\* the lines /proc/mounts may hold: a partition of the USB disk or a tmpfs,
\* at a forbidden directory, under /home/, or elsewhere
MountEntries ==
    [fsname : {S_dev \o S_sdb \o <<"1">>, <<"t", "m", "p", "f", "s">>},
     dir : {S_root, S_boot, S_bootefi, S_home, S_homeU, S_mnt,
            <<"/", "h", "o", "m", "e", "s">>}]

\* environment: a filesystem is mounted (appended to /proc/mounts)
MountFs ==
    /\ Len(procMounts) < MaxMounts
    /\ \E e \in MountEntries : procMounts' = Append(procMounts, e)
    /\ UNCHANGED <<extVars, devices, writerVars, partVars, uiVars, calls>>

\* environment: a filesystem is unmounted
UmountFs ==
    /\ \E i \in 1..Len(procMounts) :
          procMounts' = SubSeq(procMounts, 1, i - 1)
                            \o SubSeq(procMounts, i + 1, Len(procMounts))
    /\ UNCHANGED <<extVars, devices, writerVars, partVars, uiVars, calls>>

\* refresh_devices / device_refresh
DeviceEnumerate ==
    /\ devices' = device_enumerate(procMounts)
    /\ UNCHANGED <<extVars, procMounts, writerVars, partVars, uiVars, calls>>

DevIdle ==
    /\ udev = UdevDisks
    /\ procMounts = <<>>
    /\ devices = <<>>

DevNext == MountFs \/ UmountFs \/ DeviceEnumerate

----------------------------------------------------------------------------
(* iso_writer.c: the asynchronous writer *)

MaxPolls == 2        \* progress polls recorded per job
MaxSectors == 2      \* the sectors-written counter stops growing here
SECTOR_BYTES == 512

Main == 0 - 1
Worker == 1                     \* the one writer thread alive at a time, and its dd child
Jobs == {Worker}
SyncPid == 0                    \* the child of iso_write_sync
Pids == {SyncPid} \cup Jobs
IsoSizes == {700, 256 * MiB}    \* st.st_size of the source
NoFile == 0 - 1                    \* a source path stat() fails on
WriterDev == S_dev \o S_sda     \* device_path handed to the writers
DevBytes == DevSize(WriterDev)  \* capacity of the destination device
UMod == 2^30                    \* uint64_t arithmetic, scaled down to 30 bits

Terminal == {"Complete", "Error", "Cancelled"}
DdExited == {"exit0", "exitErr", "signaled"}

\* get_device_sectors_written: the counter, or 0 when the stat file cannot be
\* opened or holds fewer than 7 fields
SectorReads == {sectors, 0}

\* bytes_written without the cap at iso_size
BytesWrittenUncapped(current, baseline, iso_size) ==
    (((current - baseline) % UMod) % (UMod \div SECTOR_BYTES)) * SECTOR_BYTES

\* delta_sectors = current - baseline; bytes_written = delta * 512, capped at
\* iso_size. (d * 512) mod 2^w is computed as (d mod 2^(w-9)) * 512.
BytesWritten(current, baseline, iso_size) ==
    LET delta_sectors == (current - baseline) % UMod
        bytes_written == (delta_sectors % (UMod \div SECTOR_BYTES)) * SECTOR_BYTES
    IN IF bytes_written > iso_size THEN iso_size ELSE bytes_written

\* progress_cb(bytes_written, total_bytes, ...) and complete_cb(state, ...)
Progress(b, total) == [kind |-> "progress", bytes |-> b, total |-> total, state |-> "-"]
Completion(st) == [kind |-> "complete", bytes |-> 0, total |-> 0, state |-> st]

\* a call that changes the device, as recorded in calls
DeviceCall(name, path) ==
    [call |-> name, device |-> path, dev |-> path, forbidden |-> has_forbidden_mount(get_mountpoints(path, procMounts))]

\* g_idle_add: the source goes to the end of the main loop's idle sources
g_idle_add(q, source) == Append(q, source)

\* the progress callback handed to iso_write_sync: none, or iso_write_progress
\* of the main window, which posts progress_update_idle with bytes / total
progress_cb(cb, bytes, total) ==
    IF cb = "iso_write_progress" THEN g_idle_add(idleq, Progress(bytes, total)) ELSE idleq

Access(t, f, o) == [thread |-> t, field |-> f, op |-> o, locked |-> (mutex = t)]

\* kill(pid, SIGTERM): a running process gets the signal pending; the status
\* the pid had is recorded
Kill(by, pid) ==
    /\ dd' = [dd EXCEPT ![pid].sig = (dd[pid].st = "running") \/ dd[pid].sig]
    /\ kills' = {[by |-> by, pid |-> pid, st |-> dd[pid].st]}

WkIdle == [pc |-> "none", baseline |-> 0, cancelled |-> FALSE,
           lastSample |-> 0, samplesOK |-> TRUE]

SyIdle == [pc |-> "none", iso |-> 0, dev |-> <<>>, cb |-> "none", baseline |-> 0,
           lastSample |-> 0, samplesOK |-> TRUE, ret |-> "none"]


WriterIdle ==
    /\ writer = [state |-> "Idle", dd_pid |-> -1, cancel_requested |-> FALSE,
                 thread_running |-> FALSE, iso_size |-> 0]
    /\ mutex = 0
    /\ call = [pc |-> "idle", arg |-> 0, ret |-> "none"]
    /\ wk = [j \in Jobs |-> WkIdle]
    /\ dd = [j \in Pids |-> [st |-> "none", sig |-> FALSE]]
    /\ sectors = 0
    /\ notes = [j \in Pids |-> <<>>]
    /\ syncs = {}
    /\ kills = {}
    /\ acc = {}
    /\ cancelW = {}
    /\ sy = SyIdle

Polls(j) == Cardinality({i \in 1..Len(notes[j]) : notes[j][i].kind = "progress"})

\* the job whose worker thread is alive, 0 when there is none
ActiveJob == IF wk[Worker].pc \notin {"none", "done"} THEN Worker ELSE 0

---- (* the calling thread *)

\* iso_writer_start is entered with a source path
StartEnter ==
    /\ call.pc = "idle"
    /\ sy.pc = "none"
    /\ \E iso \in IsoSizes \cup {NoFile} :
          call' = [pc |-> "st_lock", arg |-> iso, ret |-> "none"]
    /\ acc' = {}
    /\ kills' = {}
    /\ UNCHANGED <<extVars, devVars, partVars, uiVars, calls, sy, writer, mutex, wk, dd, sectors, notes, syncs, cancelW>>

\* lines 290-291: iso_writer_start with a null writer, iso_path or device_path
StartNull ==
    /\ call.pc = "idle"
    /\ sy.pc = "none"
    /\ call' = [pc |-> "idle", arg |-> 0, ret |-> "false"]
    /\ acc' = {}
    /\ kills' = {}
    /\ UNCHANGED <<extVars, devVars, partVars, uiVars, calls, sy, writer, mutex, wk, dd, sectors, notes, syncs, cancelW>>

\* line 293: pthread_mutex_lock
StartLock ==
    /\ call.pc = "st_lock"
    /\ mutex = 0
    /\ mutex' = Main
    /\ call' = [call EXCEPT !.pc = "st_check"]
    /\ acc' = {}
    /\ kills' = {}
    /\ UNCHANGED <<extVars, devVars, partVars, uiVars, calls, sy, writer, wk, dd, sectors, notes, syncs, cancelW>>

\* lines 294-299: if (writer->thread_running) return false
StartCheck ==
    /\ call.pc = "st_check"
    /\ acc' = {Access(Main, "thread_running", "read")}
    /\ mutex' = 0
    /\ IF writer.thread_running
       THEN call' = [call EXCEPT !.pc = "idle", !.arg = 0, !.ret = "false"]
       ELSE call' = [call EXCEPT !.pc = "st_stat"]
    /\ kills' = {}
    /\ UNCHANGED <<extVars, devVars, partVars, uiVars, calls, sy, writer, wk, dd, sectors, notes, syncs, cancelW>>

\* lines 301-305: stat(iso_path)
StartStat ==
    /\ call.pc = "st_stat"
    /\ IF call.arg = NoFile
       THEN call' = [call EXCEPT !.pc = "idle", !.arg = 0, !.ret = "false"]
       ELSE call' = [call EXCEPT !.pc = "st_init"]
    /\ acc' = {}
    /\ kills' = {}
    /\ UNCHANGED <<extVars, devVars, partVars, uiVars, calls, sy, writer, mutex, wk, dd, sectors, notes, syncs, cancelW>>

\* lines 307-316: the parameters, cancel_requested = false, thread_running = true
StartInit ==
    /\ call.pc = "st_init"
    /\ writer' = [writer EXCEPT !.iso_size = call.arg,
                                !.cancel_requested = FALSE,
                                !.thread_running = TRUE]
    /\ acc' = {Access(Main, "cancel_requested", "write"),
               Access(Main, "thread_running", "write")}
    /\ call' = [call EXCEPT !.pc = "st_create", !.arg = 0]
    /\ kills' = {}
    /\ UNCHANGED <<extVars, devVars, partVars, uiVars, calls, sy, mutex, wk, dd, sectors, notes, syncs, cancelW>>

\* line 318: pthread_create(&writer->thread, NULL, writer_thread, writer)
\* succeeds.  The model follows one writer thread: a thread created while
\* another one is still alive is only counted.
ThreadCreate ==
    /\ nthreads' = nthreads + 1
    /\ IF nthreads = 0
       THEN /\ wk' = [j \in Jobs |-> [WkIdle EXCEPT !.pc = "t_lock"]]
            \* the records of the finished jobs are dropped
            /\ dd' = [j \in Pids |-> [st |-> "none", sig |-> FALSE]]
            /\ notes' = [j \in Pids |-> <<>>]
            /\ syncs' = {}
            /\ cancelW' = {}
       ELSE UNCHANGED <<wk, dd, notes, syncs, cancelW>>

\* lines 318-325: pthread_create succeeds and the worker thread exists
StartCreate ==
    /\ call.pc = "st_create"
    /\ ThreadCreate
    /\ call' = [call EXCEPT !.pc = "idle", !.ret = "true"]
    /\ acc' = {}
    /\ kills' = {}
    /\ UNCHANGED <<moreVars, racer, fm, xt, devVars, partVars, uiVars, calls, sy, writer, mutex, sectors>>

\* a failed pthread_create recorded in the state field
StartCreateFails_setsError ==
    /\ call.pc = "st_create"
    /\ writer' = [writer EXCEPT !.thread_running = FALSE, !.state = "Error"]
    /\ acc' = {Access(Main, "thread_running", "write")}
    /\ call' = [call EXCEPT !.pc = "idle", !.ret = "false"]
    /\ kills' = {}
    /\ UNCHANGED <<extVars, devVars, partVars, uiVars, calls, sy, mutex, wk, dd, sectors, notes, syncs, cancelW>>

\* lines 318-322: pthread_create fails
StartCreateFails ==
    /\ call.pc = "st_create"
    /\ writer' = [writer EXCEPT !.thread_running = FALSE]
    /\ acc' = {Access(Main, "thread_running", "write")}
    /\ call' = [call EXCEPT !.pc = "idle", !.ret = "false"]
    /\ kills' = {}
    /\ UNCHANGED <<extVars, devVars, partVars, uiVars, calls, sy, mutex, wk, dd, sectors, notes, syncs, cancelW>>

\* iso_writer_cancel, line 333: pthread_mutex_lock; the call comes from the
\* program or from iso_writer_free (line 68), which is remembered in ret
CancelLock ==
    /\ call.pc \in {"idle", "fr_cancel"}
    /\ mutex = 0
    /\ mutex' = Main
    /\ call' = [call EXCEPT !.pc = "ca_body",
                            !.ret = IF call.pc = "fr_cancel" THEN "in_free" ELSE "none"]
    /\ acc' = {}
    /\ kills' = {}
    /\ UNCHANGED <<extVars, devVars, partVars, uiVars, calls, sy, writer, wk, dd, sectors, notes, syncs, cancelW>>

\* lines 334-338: cancel_requested = true; if (dd_pid > 0) kill(dd_pid, SIGTERM)
CancelBody ==
    /\ call.pc = "ca_body"
    /\ writer' = [writer EXCEPT !.cancel_requested = TRUE]
    /\ acc' = {Access(Main, "cancel_requested", "write"), Access(Main, "dd_pid", "read")}
    /\ IF writer.dd_pid > 0
       THEN Kill(Main, writer.dd_pid)
       ELSE /\ kills' = {}
            /\ UNCHANGED dd
    /\ cancelW' = IF writer.state = "Writing" /\ ActiveJob > 0
                  THEN cancelW \cup {ActiveJob} ELSE cancelW
    /\ mutex' = 0
    /\ call' = [call EXCEPT !.pc = IF call.ret = "in_free" THEN "fr_join" ELSE "idle"]
    /\ UNCHANGED <<extVars, devVars, partVars, uiVars, calls, sy, wk, sectors, notes, syncs>>

\* iso_writer_is_running and iso_writer_get_state: pthread_mutex_lock
GetterLock ==
    /\ call.pc = "idle"
    /\ mutex = 0
    /\ mutex' = Main
    /\ \E g \in {"ir_body", "gs_body"} : call' = [call EXCEPT !.pc = g, !.ret = "none"]
    /\ acc' = {}
    /\ kills' = {}
    /\ UNCHANGED <<extVars, devVars, partVars, uiVars, calls, sy, writer, wk, dd, sectors, notes, syncs, cancelW>>

\* iso_writer_is_running, lines 347-350
IsRunningBody ==
    /\ call.pc = "ir_body"
    /\ acc' = {Access(Main, "thread_running", "read")}
    /\ mutex' = 0
    /\ call' = [call EXCEPT !.pc = "idle",
                            !.ret = IF writer.thread_running THEN "true" ELSE "false"]
    /\ kills' = {}
    /\ UNCHANGED <<extVars, devVars, partVars, uiVars, calls, sy, writer, wk, dd, sectors, notes, syncs, cancelW>>

\* iso_writer_get_state, lines 359-362
GetStateBody ==
    /\ call.pc = "gs_body"
    /\ acc' = {Access(Main, "state", "read")}
    /\ mutex' = 0
    /\ call' = [call EXCEPT !.pc = "idle", !.ret = writer.state]
    /\ kills' = {}
    /\ UNCHANGED <<extVars, devVars, partVars, uiVars, calls, sy, writer, wk, dd, sectors, notes, syncs, cancelW>>

\* iso_writer_free, lines 64-67: if (writer->thread_running), read without
\* the mutex
FreeEnter ==
    /\ call.pc = "idle"
    /\ sy.pc = "none"
    /\ acc' = {Access(Main, "thread_running", "read")}
    /\ call' = [call EXCEPT !.pc = IF writer.thread_running THEN "fr_cancel" ELSE "fr_destroy",
                            !.ret = "none"]
    /\ kills' = {}
    /\ UNCHANGED <<extVars, devVars, partVars, uiVars, calls, sy, writer, mutex, wk, dd, sectors, notes, syncs, cancelW>>

\* pthread_join returning while the thread still runs
FreeJoin_noWait ==
    /\ call.pc = "fr_join"
    /\ call' = [call EXCEPT !.pc = "fr_destroy"]
    /\ acc' = {}
    /\ kills' = {}
    /\ UNCHANGED <<extVars, devVars, partVars, uiVars, calls, sy, writer, mutex, wk, dd, sectors, notes, syncs, cancelW>>

\* line 69: pthread_join(writer->thread, NULL) returns when writer_thread has
\* returned
FreeJoin ==
    /\ call.pc = "fr_join"
    /\ wk[Worker].pc \in {"none", "done"}
    /\ call' = [call EXCEPT !.pc = "fr_destroy"]
    /\ acc' = {}
    /\ kills' = {}
    /\ UNCHANGED <<extVars, devVars, partVars, uiVars, calls, sy, writer, mutex, wk, dd, sectors, notes, syncs, cancelW>>

\* lines 72-75: pthread_mutex_destroy, free of the paths and of the writer;
\* the caller holds a dangling pointer and makes no further call
FreeDestroy ==
    /\ call.pc = "fr_destroy"
    /\ call' = [call EXCEPT !.pc = "freed"]
    /\ acc' = {}
    /\ kills' = {}
    /\ UNCHANGED <<extVars, devVars, partVars, uiVars, calls, sy, writer, mutex, wk, dd, sectors, notes, syncs, cancelW>>

FreeNext == FreeEnter \/ FreeJoin \/ FreeDestroy

CallerNext ==
    \/ StartEnter \/ StartNull \/ StartLock \/ StartCheck \/ StartStat \/ StartInit
    \/ StartCreate \/ StartCreateFails
    \/ CancelLock \/ CancelBody
    \/ GetterLock \/ IsRunningBody \/ GetStateBody

---- (* writer_thread, for the job j it was created for *)

\* pthread_mutex_lock at lines 115, 161, 174, 238, 250, 257, 271
AfterLock(pc) ==
    CASE pc = "t_lock" -> "t_writing"
      [] pc = "p_lock" -> "p_setpid"
      [] pc = "l_lock" -> "l_cancel"
      [] pc = "c_lock" -> "c_set"
      [] pc = "s_lock1" -> "s_syncing"
      [] pc = "s_lock2" -> "s_complete"
      [] pc = "e_lock" -> "e_set"
      [] OTHER -> "none"

WorkerLock(j) ==
    /\ AfterLock(wk[j].pc) /= "none"
    /\ mutex = 0
    /\ mutex' = j
    /\ wk' = [wk EXCEPT ![j].pc = AfterLock(wk[j].pc)]
    /\ acc' = {}
    /\ kills' = {}
    /\ UNCHANGED <<extVars, devVars, partVars, uiVars, calls, sy, writer, call, dd, sectors, notes, syncs, cancelW>>

\* lines 116-117: state = WRITE_STATE_WRITING
WorkerSetWriting(j) ==
    /\ wk[j].pc = "t_writing"
    /\ writer' = [writer EXCEPT !.state = "Writing"]
    /\ acc' = {Access(j, "state", "write")}
    /\ mutex' = 0
    /\ wk' = [wk EXCEPT ![j].pc = "t_baseline"]
    /\ kills' = {}
    /\ UNCHANGED <<extVars, devVars, partVars, uiVars, calls, sy, call, dd, sectors, notes, syncs, cancelW>>

\* line 120: the baseline sample, before dd is started
WorkerBaseline(j) ==
    /\ wk[j].pc = "t_baseline"
    /\ \E v \in SectorReads :
          wk' = [wk EXCEPT ![j].pc = "t_fork", ![j].baseline = v, ![j].lastSample = v]
    /\ acc' = {}
    /\ kills' = {}
    /\ UNCHANGED <<extVars, devVars, partVars, uiVars, calls, sy, writer, mutex, call, dd, sectors, notes, syncs, cancelW>>

\* lines 124-152: pipe and fork succeed, the child runs pkexec sh -c dd
WorkerFork(j) ==
    /\ wk[j].pc = "t_fork"
    /\ dd' = [dd EXCEPT ![j] = [st |-> "running", sig |-> FALSE]]
    /\ wk' = [wk EXCEPT ![j].pc = "p_lock"]
    /\ acc' = {}
    /\ kills' = {}
    /\ UNCHANGED <<extVars, devVars, partVars, uiVars, calls, sy, writer, mutex, call, sectors, notes, syncs, cancelW>>

\* lines 125-136: pipe or fork fails, goto error
WorkerForkFails(j) ==
    /\ wk[j].pc = "t_fork"
    /\ wk' = [wk EXCEPT ![j].pc = "e_lock"]
    /\ acc' = {}
    /\ kills' = {}
    /\ UNCHANGED <<extVars, devVars, partVars, uiVars, calls, sy, writer, mutex, call, dd, sectors, notes, syncs, cancelW>>

\* lines 162-163: dd_pid = pid
WorkerSetPid(j) ==
    /\ wk[j].pc = "p_setpid"
    /\ writer' = [writer EXCEPT !.dd_pid = j]
    /\ acc' = {Access(j, "dd_pid", "write")}
    /\ mutex' = 0
    /\ wk' = [wk EXCEPT ![j].pc = "l_lock"]
    /\ kills' = {}
    /\ UNCHANGED <<extVars, devVars, partVars, uiVars, calls, sy, call, dd, sectors, notes, syncs, cancelW>>

\* lines 175-181: cancelled = cancel_requested; if set, kill(pid, SIGTERM) and break
WorkerReadCancel(j) ==
    /\ wk[j].pc = "l_cancel"
    /\ acc' = {Access(j, "cancel_requested", "read")}
    /\ mutex' = 0
    /\ IF writer.cancel_requested
       THEN /\ Kill(j, j)
            /\ wk' = [wk EXCEPT ![j].pc = "c_wait", ![j].cancelled = TRUE]
       ELSE /\ wk' = [wk EXCEPT ![j].pc = "l_wait"]
            /\ kills' = {}
            /\ UNCHANGED dd
    /\ UNCHANGED <<extVars, devVars, partVars, uiVars, calls, sy, writer, call, sectors, notes, syncs, cancelW>>

\* lines 190-199: waitpid(pid, WNOHANG) finds dd exited: status 0 is success,
\* anything else (non-zero, killed by a signal) is error
WorkerWaitExited(j) ==
    /\ wk[j].pc = "l_wait"
    /\ dd[j].st \in DdExited
    /\ dd' = [dd EXCEPT ![j].st = "reaped"]
    /\ wk' = [wk EXCEPT ![j].pc = IF dd[j].st = "exit0" THEN "s_lock1" ELSE "e_lock"]
    /\ acc' = {}
    /\ kills' = {}
    /\ UNCHANGED <<extVars, devVars, partVars, uiVars, calls, sy, writer, mutex, call, sectors, notes, syncs, cancelW>>

\* line 190: waitpid(pid, WNOHANG) returns 0, dd is still running
WorkerWaitRunning(j) ==
    /\ wk[j].pc = "l_wait"
    /\ dd[j].st = "running"
    /\ Polls(j) < MaxPolls
    /\ wk' = [wk EXCEPT ![j].pc = "l_progress"]
    /\ acc' = {}
    /\ kills' = {}
    /\ UNCHANGED <<extVars, devVars, partVars, uiVars, calls, sy, writer, mutex, call, dd, sectors, notes, syncs, cancelW>>

\* lines 206-231: sample the counter, report the capped byte count, sleep
WorkerProgress(j) ==
    /\ wk[j].pc = "l_progress"
    /\ \E current_sectors \in SectorReads :
          /\ notes' = [notes EXCEPT ![j] = Append(@,
                Progress(BytesWritten(current_sectors, wk[j].baseline, writer.iso_size),
                         writer.iso_size))]
          /\ wk' = [wk EXCEPT ![j].pc = "l_lock",
                              ![j].lastSample = current_sectors,
                              ![j].samplesOK = @ /\ current_sectors >= wk[j].lastSample]
    /\ acc' = {}
    /\ kills' = {}
    /\ UNCHANGED <<extVars, devVars, partVars, uiVars, calls, sy, writer, mutex, call, dd, sectors, syncs, cancelW>>

\* lines 235-236: the cancelled path waits for dd to exit
WorkerCancelWait(j) ==
    /\ wk[j].pc = "c_wait"
    /\ dd[j].st \in DdExited
    /\ dd' = [dd EXCEPT ![j].st = "reaped"]
    /\ wk' = [wk EXCEPT ![j].pc = "c_lock"]
    /\ acc' = {}
    /\ kills' = {}
    /\ UNCHANGED <<extVars, devVars, partVars, uiVars, calls, sy, writer, mutex, call, sectors, notes, syncs, cancelW>>

\* the state stores of the three exits without dd_pid = -1
WorkerSetState_keepPid(j) ==
    /\ wk[j].pc \in {"c_set", "s_syncing", "s_complete", "e_set"}
    /\ LET pc == wk[j].pc
           st == CASE pc = "c_set" -> "Cancelled"
                   [] pc = "s_syncing" -> "Syncing"
                   [] pc = "s_complete" -> "Complete"
                   [] pc = "e_set" -> "Error"
           nxt == CASE pc = "c_set" -> "c_cb"
                    [] pc = "s_syncing" -> "s_sync"
                    [] pc = "s_complete" -> "s_progress"
                    [] pc = "e_set" -> "e_cb"
       IN /\ writer' = [writer EXCEPT !.state = st]
          /\ acc' = {Access(j, "state", "write")}
          /\ wk' = [wk EXCEPT ![j].pc = nxt]
    /\ mutex' = 0
    /\ kills' = {}
    /\ UNCHANGED <<extVars, devVars, partVars, uiVars, calls, sy, call, dd, sectors, notes, syncs, cancelW>>

\* lines 239-241, 251-253, 258-259, 272-274: the state stores of the three exits
WorkerSetState(j) ==
    /\ wk[j].pc \in {"c_set", "s_syncing", "s_complete", "e_set"}
    /\ LET pc == wk[j].pc
           st == CASE pc = "c_set" -> "Cancelled"
                   [] pc = "s_syncing" -> "Syncing"
                   [] pc = "s_complete" -> "Complete"
                   [] pc = "e_set" -> "Error"
           nxt == CASE pc = "c_set" -> "c_cb"
                    [] pc = "s_syncing" -> "s_sync"
                    [] pc = "s_complete" -> "s_progress"
                    [] pc = "e_set" -> "e_cb"
       IN /\ writer' = [writer EXCEPT !.state = st,
                                      !.dd_pid = IF pc = "s_complete" THEN @ ELSE -1]
          /\ acc' = {Access(j, "state", "write")}
                      \cup (IF pc = "s_complete" THEN {}
                            ELSE {Access(j, "dd_pid", "write")})
          /\ wk' = [wk EXCEPT ![j].pc = nxt]
    /\ mutex' = 0
    /\ kills' = {}
    /\ UNCHANGED <<extVars, devVars, partVars, uiVars, calls, sy, call, dd, sectors, notes, syncs, cancelW>>

\* line 255: sync()
WorkerSync(j) ==
    /\ wk[j].pc = "s_sync"
    /\ syncs' = syncs \cup {j}
    /\ wk' = [wk EXCEPT ![j].pc = "s_lock2"]
    /\ acc' = {}
    /\ kills' = {}
    /\ UNCHANGED <<extVars, devVars, partVars, uiVars, calls, sy, writer, mutex, call, dd, sectors, notes, cancelW>>

\* lines 261-262: the 100% report
WorkerFinalProgress(j) ==
    /\ wk[j].pc = "s_progress"
    /\ notes' = [notes EXCEPT ![j] = Append(@, Progress(writer.iso_size, writer.iso_size))]
    /\ wk' = [wk EXCEPT ![j].pc = "s_cb"]
    /\ acc' = {}
    /\ kills' = {}
    /\ UNCHANGED <<extVars, devVars, partVars, uiVars, calls, sy, writer, mutex, call, dd, sectors, syncs, cancelW>>

\* complete_cb left out on the error exit
WorkerComplete_errorSilent(j) ==
    /\ wk[j].pc \in {"c_cb", "s_cb", "e_cb"}
    /\ LET st == CASE wk[j].pc = "c_cb" -> "Cancelled"
                   [] wk[j].pc = "s_cb" -> "Complete"
                   [] wk[j].pc = "e_cb" -> "Error"
       IN notes' = IF st = "Error" THEN notes
                   ELSE [notes EXCEPT ![j] = Append(@, Completion(st))]
    /\ wk' = [wk EXCEPT ![j].pc = "x_flag"]
    /\ acc' = {}
    /\ kills' = {}
    /\ UNCHANGED <<extVars, devVars, partVars, uiVars, calls, sy, writer, mutex, call, dd, sectors, syncs, cancelW>>

\* lines 243-244, 264-265, 276-277: complete_cb
WorkerComplete(j) ==
    /\ wk[j].pc \in {"c_cb", "s_cb", "e_cb"}
    /\ LET st == CASE wk[j].pc = "c_cb" -> "Cancelled"
                   [] wk[j].pc = "s_cb" -> "Complete"
                   [] wk[j].pc = "e_cb" -> "Error"
       IN notes' = [notes EXCEPT ![j] = Append(@, Completion(st))]
    /\ wk' = [wk EXCEPT ![j].pc = "x_flag"]
    /\ acc' = {}
    /\ kills' = {}
    /\ UNCHANGED <<extVars, devVars, partVars, uiVars, calls, sy, writer, mutex, call, dd, sectors, syncs, cancelW>>

\* lines 246, 267, 279: thread_running = false; return NULL
WorkerClearRunning(j) ==
    /\ wk[j].pc = "x_flag"
    /\ writer' = [writer EXCEPT !.thread_running = FALSE]
    /\ acc' = {Access(j, "thread_running", "write")}
    /\ wk' = [wk EXCEPT ![j] = [WkIdle EXCEPT !.pc = "done", !.samplesOK = wk[j].samplesOK]]
    /\ kills' = {}
    /\ nthreads' = nthreads - 1
    /\ UNCHANGED <<moreVars, racer, fm, xt, devVars, partVars, uiVars, calls, sy, mutex, call, dd, sectors, notes, syncs, cancelW>>

WorkerNext ==
    \E j \in Jobs :
        \/ WorkerLock(j) \/ WorkerSetWriting(j) \/ WorkerBaseline(j)
        \/ WorkerFork(j) \/ WorkerForkFails(j) \/ WorkerSetPid(j)
        \/ WorkerReadCancel(j) \/ WorkerWaitExited(j) \/ WorkerWaitRunning(j)
        \/ WorkerProgress(j) \/ WorkerCancelWait(j) \/ WorkerSetState(j)
        \/ WorkerSync(j) \/ WorkerFinalProgress(j) \/ WorkerComplete(j)
        \/ WorkerClearRunning(j)

---- (* the copy process and the device *)

\* dd ends by itself: status 0, or a non-zero status
DdExit(j) ==
    /\ dd[j].st = "running"
    /\ \E st \in {"exit0", "exitErr"} : dd' = [dd EXCEPT ![j].st = st]
    /\ acc' = {}
    /\ kills' = {}
    /\ UNCHANGED <<extVars, devVars, partVars, uiVars, calls, sy, writer, mutex, call, wk, sectors, notes, syncs, cancelW>>

\* the pending SIGTERM ends dd
DdTerminated(j) ==
    /\ dd[j].st = "running"
    /\ dd[j].sig
    /\ dd' = [dd EXCEPT ![j].st = "signaled"]
    /\ acc' = {}
    /\ kills' = {}
    /\ UNCHANGED <<extVars, devVars, partVars, uiVars, calls, sy, writer, mutex, call, wk, sectors, notes, syncs, cancelW>>

\* sectors reach the device while a copy runs
DeviceWrite ==
    /\ \E j \in Pids : dd[j].st = "running"
    /\ sectors < MaxSectors
    /\ \E n \in (sectors + 1)..MaxSectors : sectors' = n
    /\ acc' = {}
    /\ kills' = {}
    /\ UNCHANGED <<extVars, devVars, partVars, uiVars, calls, sy, writer, mutex, call, wk, dd, notes, syncs, cancelW>>


---- (* iso_write_sync, the blocking writer *)

\* lines 368-374: stat(iso_path); iso stands for st.st_size, NoFile for a failing stat
SyncStat ==
    /\ sy.pc = "stat"
    /\ IF sy.iso = NoFile
       THEN sy' = [sy EXCEPT !.pc = "ret", !.ret = "false"]
       ELSE sy' = [sy EXCEPT !.pc = "baseline"]
    /\ acc' = {}
    /\ kills' = {}
    /\ UNCHANGED <<extVars, devVars, partVars, uiVars, calls, writer, mutex, call, wk, dd, sectors, notes, syncs, cancelW>>

\* line 377: the baseline sample
SyncBaseline ==
    /\ sy.pc = "baseline"
    /\ \E v \in SectorReads :
          sy' = [sy EXCEPT !.pc = "fork", !.baseline = v, !.lastSample = v]
    /\ acc' = {}
    /\ kills' = {}
    /\ UNCHANGED <<extVars, devVars, partVars, uiVars, calls, writer, mutex, call, wk, dd, sectors, notes, syncs, cancelW>>

\* lines 379-401: fork succeeds, the child runs pkexec dd
SyncFork ==
    /\ sy.pc = "fork"
    /\ dd' = [dd EXCEPT ![SyncPid] = [st |-> "running", sig |-> FALSE]]
    /\ sy' = [sy EXCEPT !.pc = "wait"]
    /\ calls' = Append(calls, DeviceCall("dd", sy.dev))
    /\ acc' = {}
    /\ kills' = {}
    /\ UNCHANGED <<extVars, devVars, partVars, uiVars, writer, mutex, call, wk, sectors, notes, syncs, cancelW>>

\* lines 380-381: fork fails
SyncForkFails ==
    /\ sy.pc = "fork"
    /\ sy' = [sy EXCEPT !.pc = "ret", !.ret = "false"]
    /\ acc' = {}
    /\ kills' = {}
    /\ UNCHANGED <<extVars, devVars, partVars, uiVars, calls, writer, mutex, call, wk, dd, sectors, notes, syncs, cancelW>>

\* lines 409-411: waitpid(WNOHANG) finds dd exited; sync()
SyncWaitExited ==
    /\ sy.pc = "wait"
    /\ dd[SyncPid].st \in DdExited
    /\ dd' = [dd EXCEPT ![SyncPid].st = "reaped"]
    /\ syncs' = syncs \cup {SyncPid}
    /\ sy' = [sy EXCEPT !.pc = "final",
                        !.ret = IF dd[SyncPid].st = "exit0" THEN "true" ELSE "false"]
    /\ acc' = {}
    /\ kills' = {}
    /\ UNCHANGED <<extVars, devVars, partVars, uiVars, calls, writer, mutex, call, wk, sectors, notes, cancelW>>

\* iso_write_sync returning without the 100% report
SyncFinalProgress_noReport ==
    /\ sy.pc = "final"
    /\ sy' = [sy EXCEPT !.pc = "ret"]
    /\ acc' = {}
    /\ kills' = {}
    /\ UNCHANGED <<extVars, devVars, partVars, uiVars, calls, writer, mutex, call, wk, dd, sectors,
                   notes, syncs, cancelW>>

\* lines 412-414: progress_cb(iso_size, iso_size); return the exit test
SyncFinalProgress ==
    /\ sy.pc = "final"
    /\ notes' = [notes EXCEPT ![SyncPid] = Append(@, Progress(sy.iso, sy.iso))]
    /\ idleq' = progress_cb(sy.cb, sy.iso, sy.iso)
    /\ sy' = [sy EXCEPT !.pc = "ret"]
    /\ acc' = {}
    /\ kills' = {}
    /\ UNCHANGED <<extVars, devVars, partVars, ui, op, delivered, calls, writer, mutex, call, wk, dd, sectors, syncs, cancelW>>

\* line 409: waitpid(WNOHANG) returns 0
SyncWaitRunning ==
    /\ sy.pc = "wait"
    /\ dd[SyncPid].st = "running"
    /\ Polls(SyncPid) < MaxPolls
    /\ sy' = [sy EXCEPT !.pc = "progress"]
    /\ acc' = {}
    /\ kills' = {}
    /\ UNCHANGED <<extVars, devVars, partVars, uiVars, calls, writer, mutex, call, wk, dd, sectors, notes, syncs, cancelW>>

\* lines 417-437: sample the counter, report the capped byte count, sleep
SyncProgress ==
    /\ sy.pc = "progress"
    /\ \E current_sectors \in SectorReads :
          /\ notes' = [notes EXCEPT ![SyncPid] = Append(@,
                Progress(BytesWritten(current_sectors, sy.baseline, sy.iso), sy.iso))]
          /\ idleq' = progress_cb(sy.cb,
                          BytesWritten(current_sectors, sy.baseline, sy.iso), sy.iso)
          /\ sy' = [sy EXCEPT !.pc = "wait",
                              !.lastSample = current_sectors,
                              !.samplesOK = @ /\ current_sectors >= sy.lastSample]
    /\ acc' = {}
    /\ kills' = {}
    /\ UNCHANGED <<extVars, devVars, partVars, ui, op, delivered, calls, writer, mutex, call, wk, dd, sectors, syncs, cancelW>>

SyncNext ==
    \/ SyncStat \/ SyncBaseline \/ SyncFork \/ SyncForkFails
    \/ SyncWaitExited \/ SyncFinalProgress \/ SyncWaitRunning \/ SyncProgress

\* the calling thread enters iso_write_sync; a run drives either the writer
\* object or the blocking writer
SyncEnter ==
    /\ call.pc = "idle"
    /\ wk[Worker].pc = "none"
    /\ sy.pc = "none"
    /\ \E iso \in IsoSizes \cup {NoFile} : sy' = [SyIdle EXCEPT !.pc = "stat", !.iso = iso, !.dev = WriterDev]
    /\ call' = [call EXCEPT !.pc = "in_sync", !.ret = "none"]
    /\ acc' = {}
    /\ kills' = {}
    /\ UNCHANGED <<extVars, devVars, partVars, uiVars, calls, writer, mutex, wk, dd, sectors, notes, syncs, cancelW>>

\* iso_write_sync returns to the calling thread
SyncReturn ==
    /\ call.pc = "in_sync"
    /\ sy.pc = "ret"
    /\ call' = [call EXCEPT !.pc = "idle", !.ret = sy.ret]
    /\ sy' = [sy EXCEPT !.pc = "returned"]
    /\ acc' = {}
    /\ kills' = {}
    /\ UNCHANGED <<extVars, devVars, partVars, uiVars, calls, writer, mutex, wk, dd, sectors, notes, syncs, cancelW>>

WriterNext ==
    \/ CallerNext \/ WorkerNext \/ SyncNext \/ SyncEnter \/ SyncReturn
    \/ (\E j \in Pids : DdExit(j) \/ DdTerminated(j)) \/ DeviceWrite

----------------------------------------------------------------------------
(* partition.c *)

PartStyles == {"MBR", "GPT"}
Targets == {"BIOS", "UEFI", "BIOS_UEFI"}
FsTypes == {"FAT32", "NTFS", "EXT4"}

MBR_TYPE_FAT16 == "06"
MBR_TYPE_FAT32_LBA == "0C"
MBR_TYPE_NTFS == "07"
MBR_TYPE_LINUX == "83"
MBR_TYPE_EFI == "EF"
GPT_TYPE_EFI == "C12A7328-F81F-11D2-BA4B-00A0C93EC93B"
GPT_TYPE_LINUX == "0FC63DAF-8483-4772-8E79-3D69D8477DE4"
GPT_TYPE_MSDATA == "EBD0A0A2-B9E5-4433-87C0-68B6B72699C7"

ESP_BYTES == 256 * MiB

\* get_mbr_type without the case of FS_EXFAT
get_mbr_type_exfatDefault(fs) ==
    CASE fs = "FAT16" -> MBR_TYPE_FAT16
      [] fs = "FAT32" -> MBR_TYPE_FAT32_LBA
      [] fs = "NTFS" -> MBR_TYPE_NTFS
      [] fs \in {"EXT2", "EXT3", "EXT4"} -> MBR_TYPE_LINUX
      [] OTHER -> MBR_TYPE_FAT32_LBA

get_mbr_type(fs) ==
    CASE fs = "FAT16" -> MBR_TYPE_FAT16
      [] fs = "FAT32" -> MBR_TYPE_FAT32_LBA
      [] fs \in {"NTFS", "EXFAT"} -> MBR_TYPE_NTFS
      [] fs \in {"EXT2", "EXT3", "EXT4"} -> MBR_TYPE_LINUX
      [] OTHER -> MBR_TYPE_FAT32_LBA

get_gpt_type(fs) ==
    IF fs \in {"EXT2", "EXT3", "EXT4"} THEN GPT_TYPE_LINUX ELSE GPT_TYPE_MSDATA

\* libfdisk, as partition.c uses it: 512-byte sectors, the first partition at
\* 1 MiB, a GPT keeping its last 33 sectors for the backup table
fdisk_sector_size == SECTOR_BYTES
LabelOf(style) == IF style = "GPT" THEN "gpt" ELSE "dos"
LastUsable(path, label) ==
    (DevSize(path) \div fdisk_sector_size) - (IF label = "gpt" THEN 34 ELSE 1)

NoLabel == [label |-> "none", parts |-> <<>>]

\* fdisk_partition_start_follow_default: the first free sector
NextStart(d) ==
    IF d.parts = <<>> THEN MiB \div fdisk_sector_size
    ELSE d.parts[Len(d.parts)].start + d.parts[Len(d.parts)].size

\* the partition fdisk_add_partition creates for a byte size (0: all that is
\* left), a type and a boot flag
NewPartition(d, path, size_bytes, type, boot) ==
    LET start == NextStart(d)
    IN [start |-> start,
        size |-> IF size_bytes > 0 THEN size_bytes \div fdisk_sector_size
                 ELSE LastUsable(path, d.label) - start + 1,
        type |-> type, boot |-> boot]

\* fdisk_add_partition succeeds only for a partition inside the usable area
Fits(d, path, e) ==
    /\ d.label /= "none"
    /\ e.size > 0
    /\ e.start + e.size - 1 <= LastUsable(path, d.label)

\* partition_add without the toggle of the active flag
partition_add_noBootFlag(d, path, part) ==
    NewPartition(d, path, part.size,
                 IF d.label = "dos" THEN get_mbr_type(part.fs_type)
                 ELSE get_gpt_type(part.fs_type),
                 FALSE)

\* partition_add: the type comes from the entry's fs_type
partition_add(d, path, part) ==
    NewPartition(d, path, part.size,
                 IF d.label = "dos" THEN get_mbr_type(part.fs_type)
                 ELSE get_gpt_type(part.fs_type),
                 part.bootable /\ d.label = "dos")

\* partition_add_efi: the type is the EFI System type of the label
partition_add_efi(d, path, part) ==
    NewPartition(d, path, part.size,
                 IF d.label = "dos" THEN MBR_TYPE_EFI ELSE GPT_TYPE_EFI,
                 part.bootable /\ d.label = "dos")

\* whether partition_create_bootable lays out an ESP and a main partition
WantsEsp(fn, style, target) ==
    fn = "bootable" /\ target \in {"UEFI", "BIOS_UEFI"} /\ style = "GPT"

\* the partition_entry_t each root path hands over, first and second
FirstPart(fn, style, target, fs) ==
    IF WantsEsp(fn, style, target)
    THEN [start |-> 0, size |-> ESP_BYTES, fs_type |-> "FAT32", bootable |-> FALSE]
    ELSE IF fn = "single_efi"
    THEN [start |-> 0, size |-> 0, fs_type |-> "FAT32", bootable |-> TRUE]
    ELSE [start |-> 0, size |-> 0, fs_type |-> fs, bootable |-> TRUE]

MainPart(fs) == [start |-> 0, size |-> 0, fs_type |-> fs, bootable |-> FALSE]

\* the sfdisk script of the *_privileged functions: one record per script line
SfdiskScript(fn, style, target, fs) ==
    LET single == <<[size |-> 0,
                     type |-> IF style = "GPT" THEN get_gpt_type(fs) ELSE get_mbr_type(fs),
                     boot |-> (style = "MBR")]>>
    IN CASE fn = "single" -> single
         [] fn = "single_efi" ->
              <<[size |-> 0,
                 type |-> IF style = "GPT" THEN GPT_TYPE_EFI ELSE MBR_TYPE_EFI,
                 boot |-> (style = "MBR")]>>
         [] fn = "bootable" ->
              IF style /= "GPT" \/ target = "BIOS" THEN single
              ELSE <<[size |-> ESP_BYTES, type |-> GPT_TYPE_EFI, boot |-> FALSE],
                     [size |-> 0, type |-> get_gpt_type(fs), boot |-> FALSE]>>

\* sfdisk applies the script to a fresh label; NoLabel when a line does not fit
RECURSIVE SfdiskApply(_, _, _, _)
SfdiskApply(d, path, script, i) ==
    IF i > Len(script) THEN d
    ELSE LET e == NewPartition(d, path, script[i].size, script[i].type, script[i].boot)
         IN IF Fits(d, path, e)
            THEN SfdiskApply([d EXCEPT !.parts = Append(@, e)], path, script, i + 1)
            ELSE NoLabel

\* found: the table that was on the device when the call was entered
PtIdle == [pc |-> "none", fn |-> "single", dev |-> <<>>, style |-> "MBR",
           target |-> "BIOS", fs |-> "FAT32", ret |-> "none", found |-> NoLabel]

PartIdle ==
    /\ disk = NoLabel
    /\ pt = PtIdle

\* is_root() at the head of partition_create_single/_single_efi/_bootable
PartIsRoot ==
    /\ pt.pc = "entry"
    /\ \E root \in BOOLEAN : pt' = [pt EXCEPT !.pc = IF root THEN "table" ELSE "sfdisk"]
    /\ UNCHANGED <<extVars, devVars, writerVars, uiVars, calls, disk>>

\* the *_privileged functions: sfdisk is missing, or pkexec sfdisk runs the
\* script and fails or succeeds
PartSfdisk ==
    /\ pt.pc = "sfdisk"
    /\ \E outcome \in {"missing", "failed", "ok"} :
          LET fresh == [label |-> LabelOf(pt.style), parts |-> <<>>]
              made == SfdiskApply(fresh, pt.dev,
                                  SfdiskScript(pt.fn, pt.style, pt.target, pt.fs), 1)
          IN /\ outcome = "ok" => made /= NoLabel
             /\ disk' = IF outcome = "ok" THEN made ELSE disk
             /\ calls' = IF outcome = "missing" THEN calls
                         ELSE Append(calls, DeviceCall("table", pt.dev))
             /\ pt' = [pt EXCEPT !.pc = "ret",
                                 !.ret = IF outcome = "ok" THEN "true" ELSE "false"]
    /\ UNCHANGED <<extVars, devVars, writerVars, uiVars>>

\* partition_create_table keeping the partitions of a label of the same style
PartCreateTable_keepsSameStyle ==
    /\ pt.pc = "table"
    /\ disk' = IF disk.label = LabelOf(pt.style) THEN disk
               ELSE [label |-> LabelOf(pt.style), parts |-> <<>>]
    /\ calls' = Append(calls, DeviceCall("table", pt.dev))
    /\ pt' = IF pt.fn \in {"table", "delete_all"} THEN [pt EXCEPT !.pc = "ret", !.ret = "true"]
             ELSE [pt EXCEPT !.pc = "add1"]
    /\ UNCHANGED <<extVars, devVars, writerVars, uiVars>>

\* partition_create_table (lines 150-194) writes an empty label of the style
\* and returns true: to its caller inside partition.c, which goes on to add
\* partitions, or to the program that called it or partition_delete_all
PartCreateTable ==
    /\ pt.pc = "table"
    /\ disk' = [label |-> LabelOf(pt.style), parts |-> <<>>]
    /\ calls' = Append(calls, DeviceCall("table", pt.dev))
    /\ pt' = IF pt.fn \in {"table", "delete_all"} THEN [pt EXCEPT !.pc = "ret", !.ret = "true"]
             ELSE [pt EXCEPT !.pc = "add1"]
    /\ UNCHANGED <<extVars, devVars, writerVars, uiVars>>

\* partition_create_table fails
PartCreateTableFails ==
    /\ pt.pc = "table"
    /\ pt' = [pt EXCEPT !.pc = "ret", !.ret = "false"]
    /\ UNCHANGED <<extVars, devVars, writerVars, uiVars, calls, disk>>

\* partition_add / partition_add_efi adds the partition and writes the label
PartAdd ==
    /\ pt.pc \in {"add1", "add2"}
    /\ LET part == IF pt.pc = "add1" THEN FirstPart(pt.fn, pt.style, pt.target, pt.fs)
                   ELSE MainPart(pt.fs)
           e == IF pt.fn = "single_efi" THEN partition_add_efi(disk, pt.dev, part)
                ELSE partition_add(disk, pt.dev, part)
       IN /\ Fits(disk, pt.dev, e)
          /\ disk' = [disk EXCEPT !.parts = Append(@, e)]
    /\ calls' = Append(calls, DeviceCall("table", pt.dev))
    /\ pt' = IF pt.pc = "add1" /\ WantsEsp(pt.fn, pt.style, pt.target)
             THEN [pt EXCEPT !.pc = "add2"]
             ELSE [pt EXCEPT !.pc = "ret", !.ret = "true"]
    /\ UNCHANGED <<extVars, devVars, writerVars, uiVars>>

\* a failed first partition_add after which the second one is still made
PartAddFails_goesOn ==
    /\ pt.pc \in {"add1", "add2"}
    /\ pt' = IF pt.pc = "add1" /\ WantsEsp(pt.fn, pt.style, pt.target)
             THEN [pt EXCEPT !.pc = "add2", !.ret = "false"]
             ELSE [pt EXCEPT !.pc = "ret", !.ret = "false"]
    /\ UNCHANGED <<extVars, devVars, writerVars, uiVars, calls, disk>>

\* fdisk_add_partition or fdisk_write_disklabel fails
PartAddFails ==
    /\ pt.pc \in {"add1", "add2"}
    /\ pt' = [pt EXCEPT !.pc = "ret", !.ret = "false"]
    /\ UNCHANGED <<extVars, devVars, writerVars, uiVars, calls, disk>>

PartNext ==
    \/ PartIsRoot \/ PartSfdisk \/ PartCreateTable \/ PartCreateTableFails
    \/ PartAdd \/ PartAddFails

\* a caller enters partition_create_single, _single_efi or _bootable
PartEnter ==
    /\ call.pc = "idle"
    /\ pt.pc = "none"
    /\ \E fn \in {"single", "single_efi", "bootable"},
          dev \in {S_dev \o S_sda, S_dev \o S_sdb}, style \in PartStyles,
          target \in Targets, fs \in FsTypes :
          pt' = [pc |-> "entry", fn |-> fn, dev |-> dev, style |-> style,
                 target |-> target, fs |-> fs, ret |-> "none", found |-> NoLabel]
    /\ call' = [call EXCEPT !.pc = "in_part", !.ret = "none"]
    /\ calls' = <<>>
    /\ disk' = NoLabel
    /\ UNCHANGED <<extVars, devVars, uiVars, writer, mutex, wk, dd, sectors, notes, syncs,
                   kills, acc, cancelW, sy>>

\* a caller enters partition_create_table with a style, or partition_delete_all
\* (lines 451-472), which takes the style of the label it finds (MBR when the
\* device cannot be read); the device carries the table earlier calls left
TableEnter ==
    /\ call.pc = "idle"
    /\ pt.pc = "none"
    /\ \E fn \in {"table", "delete_all"}, style \in PartStyles, assigned \in BOOLEAN :
          /\ fn = "table" => assigned
          /\ pt' = [PtIdle EXCEPT
                      !.pc = "table", !.fn = fn, !.found = disk,
                      !.dev = IF pt.dev = <<>> THEN S_dev \o S_sdb ELSE pt.dev,
                      !.style = IF fn = "table" THEN style
                                ELSE IF assigned /\ disk.label = "gpt" THEN "GPT" ELSE "MBR"]
    /\ call' = [call EXCEPT !.pc = "in_part", !.ret = "none"]
    /\ calls' = <<>>
    /\ UNCHANGED <<extVars, devVars, uiVars, disk, writer, mutex, wk, dd, sectors, notes, syncs,
                   kills, acc, cancelW, sy>>

\* the call returns to the caller
PartReturn ==
    /\ call.pc = "in_part"
    /\ pt.pc = "ret"
    /\ call' = [call EXCEPT !.pc = "idle", !.ret = pt.ret]
    /\ pt' = [pt EXCEPT !.pc = "none"]
    /\ UNCHANGED <<extVars, devVars, uiVars, calls, disk, writer, mutex, wk, dd, sectors, notes,
                   syncs, kills, acc, cancelW, sy>>

----------------------------------------------------------------------------
(* window.c *)

MaxLateMounts == 1

\* what iso_analyze found for the selected image; NoInfo stands for a NULL iso_info
NoInfo == [size |-> 0, is_windows |-> FALSE, has_efi |-> FALSE, null |-> TRUE]
IsoInfos ==
    {[size |-> 700, is_windows |-> FALSE, has_efi |-> TRUE, null |-> FALSE],
     [size |-> 700, is_windows |-> TRUE, has_efi |-> TRUE, null |-> FALSE],
     [size |-> 700, is_windows |-> FALSE, has_efi |-> FALSE, null |-> FALSE],
     [size |-> 768 * MiB, is_windows |-> FALSE, has_efi |-> TRUE, null |-> FALSE],
     NoInfo}

\* write_op_t after g_new0, and the position of its write_thread_func
OpNone == [pc |-> "none", device_path |-> <<>>, iso |-> 0, write_iso |-> FALSE,
           iso_extract |-> FALSE, part_style |-> "MBR", target |-> "BIOS",
           fs_type |-> "UNKNOWN", success |-> FALSE]

\* no start request read, no confirmation shown
NoRequest == [write_iso |-> FALSE, info |-> NoInfo, iso_extract |-> FALSE,
              supported |-> FALSE, style |-> "none", target |-> "none", fs |-> "none"]
NoConfirm == [device |-> <<>>, size |-> [tenths |-> 0, unit |-> "B"], erase |-> FALSE,
              accepted |-> FALSE]

UiIdle ==
    /\ ui = [pc |-> "nowindow", operation_running |-> FALSE, status |-> "none",
             request |-> NoRequest, confirm |-> NoConfirm]
    /\ op = OpNone
    /\ idleq = <<>>
    /\ delivered = <<>>
    /\ calls = <<>>

\* g_idle_add(write_complete_idle, op)
CompleteSource == [kind |-> "complete", bytes |-> 0, total |-> 0, state |-> "-"]

\* what the main loop has run: a progress update, or write_complete_idle with
\* the op->success it read
Ran(source, o) ==
    IF source.kind = "complete"
    THEN [kind |-> "complete", bytes |-> 0, total |-> o.iso,
          state |-> IF o.success THEN "success" ELSE "failed",
          mode |-> IF ~o.write_iso THEN "format"
                   ELSE IF o.iso_extract THEN "extract" ELSE "raw"]
    ELSE source

\* sprintf "%d": the decimal digits of an int, with its sign
RECURSIVE Decimal(_)
Decimal(n) ==
    IF n < 0 THEN <<"-">> \o Decimal(0 - n)
    ELSE IF n < 10 THEN <<ToString(n)>>
    ELSE Decimal(n \div 10) \o <<ToString(n % 10)>>

\* partition_get_path with "p" for every device
partition_get_path_alwaysP(device, part_number) ==
    device \o <<"p">> \o Decimal(part_number)

\* partition_get_path (partition.c 536-565): "p" goes between the device and
\* the number for nvme, mmcblk and loop devices and for a device name ending
\* in a digit
partition_get_path(device, part_number) ==
    LET base == BaseName(device)
        len == Len(base)
        needs_p == \/ strncmp0(base, <<"n", "v", "m", "e">>, 4)
                   \/ strncmp0(base, <<"m", "m", "c", "b", "l", "k">>, 6)
                   \/ strncmp0(base, S_loop, 4)
                   \/ (len > 0 /\ base[len] \in {"0", "1", "2", "3", "4", "5", "6", "7", "8", "9"})
    IN IF needs_p THEN device \o <<"p">> \o Decimal(part_number)
       ELSE device \o Decimal(part_number)

\* device_unmount: umount2(MNT_DETACH) of every mountpoint of the snapshot; ok
\* tells whether the kernel lets the caller unmount. The topmost mount at the
\* directory goes.
RECURSIVE UnmountAll(_, _, _)
UnmountAll(table, dirs, i) ==
    IF i > Len(dirs) THEN table
    ELSE LET at == {k \in 1..Len(table) : table[k].dir = dirs[i]}
         IN IF at = {} THEN UnmountAll(table, dirs, i + 1)
            ELSE LET k == CHOOSE x \in at : \A y \in at : y <= x
                 IN UnmountAll(SubSeq(table, 1, k - 1) \o SubSeq(table, k + 1, Len(table)),
                               dirs, i + 1)

device_unmount(dev, table, ok) == IF ok THEN UnmountAll(table, dev.mountpoints, 1) ELSE table

\* the checks of on_start_clicked without the one for UEFI boot files
StartVerdict_noEfiCheck(dev, sel) ==
    LET write_iso == sel.write_iso
        info == sel.info
        iso_extract == sel.iso_extract
        supported == sel.supported
        target == sel.target
        fs == sel.fs
    IN
    IF write_iso /\ info.null THEN "Please select an ISO image"
    ELSE IF write_iso /\ info.size > dev.size THEN "ISO is larger than the target device"
    ELSE IF write_iso /\ iso_extract /\ ~supported
    THEN "ISO file copy needs xorriso, bsdtar, or 7z"
    ELSE IF write_iso /\ iso_extract /\ info.is_windows
    THEN "Windows ISO extraction not supported yet"
    ELSE IF write_iso /\ iso_extract /\ target = "BIOS"
    THEN "ISO file copy requires UEFI target"
    ELSE IF write_iso /\ iso_extract /\ fs /= "FAT32"
    THEN "ISO file copy requires FAT32"
    ELSE "ok"

\* the checks of on_start_clicked, in order; "ok" when the job is accepted
StartVerdict(dev, sel) ==
    LET write_iso == sel.write_iso
        info == sel.info
        iso_extract == sel.iso_extract
        supported == sel.supported
        target == sel.target
        fs == sel.fs
    IN
    IF write_iso /\ info.null THEN "Please select an ISO image"
    ELSE IF write_iso /\ info.size > dev.size THEN "ISO is larger than the target device"
    ELSE IF write_iso /\ iso_extract /\ ~supported
    THEN "ISO file copy needs xorriso, bsdtar, or 7z"
    ELSE IF write_iso /\ iso_extract /\ info.is_windows
    THEN "Windows ISO extraction not supported yet"
    ELSE IF write_iso /\ iso_extract /\ ~info.has_efi
    THEN "ISO file copy requires UEFI boot files"
    ELSE IF write_iso /\ iso_extract /\ target = "BIOS"
    THEN "ISO file copy requires UEFI target"
    ELSE IF write_iso /\ iso_extract /\ fs /= "FAT32"
    THEN "ISO file copy requires FAT32"
    ELSE "ok"

\* the selections a click on Start can find; the dropdowns that the chosen
\* mode does not read are left at their first entry
StartInputs ==
    [write_iso : {FALSE}, info : {NoInfo}, iso_extract : {FALSE}, supported : {TRUE},
     style : PartStyles, target : Targets, fs : FsTypes]
    \cup [write_iso : {TRUE}, info : IsoInfos, iso_extract : {FALSE}, supported : {TRUE},
          style : {"MBR"}, target : {"BIOS"}, fs : {"FAT32"}]
    \cup [write_iso : {TRUE}, info : IsoInfos, iso_extract : {TRUE}, supported : BOOLEAN,
          style : PartStyles, target : Targets, fs : {"FAT32", "NTFS"}]

\* format_size (platform.c 57-78): the unit the loop stops at and the value
\* printed, in tenths ("%.1f"; whole bytes in unit B)
RECURSIVE SizeUnit(_, _)
SizeUnit(bytes, unit) ==
    IF bytes >= 1024 * (1024 ^ unit) /\ unit < 4 THEN SizeUnit(bytes, unit + 1) ELSE unit

format_size(bytes) ==
    LET unit == SizeUnit(bytes, 0)
        U == 1024 ^ unit
        \* the fraction is kept to 1/1024 of the unit
        W == IF unit = 0 THEN 1 ELSE 1024
        r == (bytes % U) \div (U \div W)
    IN [tenths |-> (bytes \div U) * 10 + (r * 20 + W) \div (2 * W),
        unit |-> <<"B", "KB", "MB", "GB", "TB">>[unit + 1]]

\* the text of the confirmation: "This will ERASE ALL DATA on <path> (<size>) and ..."
ConfirmMessage(dev) ==
    [device |-> dev.path, size |-> format_size(dev.size), erase |-> TRUE, accepted |-> FALSE]

\* on_start_clicked with no valid selection in the device dropdown
StartNoDevice ==
    /\ ui.pc = "ready"
    /\ devices = <<>>
    /\ ui' = [ui EXCEPT !.status = "No device selected", !.request = NoRequest]
    /\ UNCHANGED <<extVars, devVars, writerVars, partVars, op, idleq, delivered, calls>>

\* the write_op_t on_start_clicked fills for a device and a selection
OpFor(dev, sel) ==
    LET extract == sel.write_iso /\ sel.iso_extract
        raw == sel.write_iso /\ ~sel.iso_extract
    IN [pc |-> "dialog",
        device_path |-> dev.path,
        iso |-> IF sel.write_iso THEN sel.info.size ELSE 0,
        write_iso |-> sel.write_iso,
        iso_extract |-> extract,
        part_style |-> IF raw THEN "MBR" ELSE sel.style,
        target |-> IF raw THEN "BIOS" ELSE sel.target,
        fs_type |-> IF raw THEN "UNKNOWN" ELSE IF extract THEN "FAT32" ELSE sel.fs,
        success |-> FALSE]

\* on_start_clicked returns at one of its checks
StartRejected ==
    /\ ui.pc = "ready"
    /\ \E device_idx \in 1..Len(devices) :
          \E sel \in {x \in StartInputs : StartVerdict(devices[device_idx], x) /= "ok"} :
              ui' = [ui EXCEPT !.status = StartVerdict(devices[device_idx], sel),
                               !.request = sel]
    /\ UNCHANGED <<extVars, devVars, writerVars, partVars, op, idleq, delivered, calls>>

\* on_start_clicked passes its checks: the device's mountpoints of the
\* snapshot are unmounted, the write_op_t is filled and the dialog is shown
StartAccepted ==
    /\ ui.pc = "ready"
    /\ \E device_idx \in 1..Len(devices), umount_ok \in BOOLEAN :
          LET dev == devices[device_idx]
          IN /\ \E sel \in {x \in StartInputs : StartVerdict(dev, x) = "ok"} :
                   /\ op' = OpFor(dev, sel)
                   /\ ui' = [ui EXCEPT !.pc = "dialog", !.request = sel,
                                       !.confirm = ConfirmMessage(dev)]
             /\ IF dev.mountpoint_count > 0
                THEN /\ procMounts' = device_unmount(dev, procMounts, umount_ok)
                     /\ calls' = <<DeviceCall("unmount", dev.path)>>
                ELSE /\ umount_ok
                     /\ procMounts' = procMounts
                     /\ calls' = <<>>
    /\ UNCHANGED <<extVars, devices, writerVars, partVars, idleq, delivered>>

\* on_confirm_response with "Continue": operation_running, pthread_create
DialogContinue ==
    /\ ui.pc = "dialog"
    /\ ui' = [pc |-> "running", operation_running |-> TRUE,
              status |-> IF op.iso_extract THEN "Extracting ISO..."
                         ELSE IF op.write_iso THEN "Writing ISO..." ELSE "Formatting...",
              request |-> NoRequest,
              confirm |-> [ui.confirm EXCEPT !.accepted = TRUE]]
    /\ op' = [op EXCEPT !.pc = "thread"]
    /\ UNCHANGED <<extVars, devVars, writerVars, partVars, idleq, delivered, calls>>

\* on_confirm_response starting the job on any response
DialogCancel_spawns ==
    /\ ui.pc = "dialog"
    /\ ui' = [ui EXCEPT !.pc = "running", !.operation_running = TRUE, !.request = NoRequest]
    /\ op' = [op EXCEPT !.pc = "thread"]
    /\ UNCHANGED <<extVars, devVars, writerVars, partVars, idleq, delivered, calls>>

\* on_confirm_response with "Cancel": the write_op_t is freed
DialogCancel ==
    /\ ui.pc = "dialog"
    /\ ui' = [ui EXCEPT !.pc = "ready", !.request = NoRequest, !.confirm = NoConfirm]
    /\ op' = OpNone
    /\ UNCHANGED <<extVars, devVars, writerVars, partVars, idleq, delivered, calls>>

\* refresh_devices: the Refresh button, or on_device_change_idle outside an operation
UiRefresh ==
    /\ ui.pc \in {"ready", "dialog", "finished"}
    /\ ~ui.operation_running
    /\ devices' = device_enumerate(procMounts)
    /\ UNCHANGED <<extVars, procMounts, writerVars, partVars, uiVars, calls>>

\* environment: a partition of /dev/sdb is mounted while the window is open
MountLate ==
    /\ ui.pc /= "nowindow"
    /\ Len(procMounts) < MaxLateMounts
    /\ \E dir \in {S_home, S_mnt} :
          procMounts' = Append(procMounts, [fsname |-> S_dev \o S_sdb \o <<"1">>, dir |-> dir])
    /\ UNCHANGED <<extVars, devices, writerVars, partVars, uiVars, calls>>

\* the main loop dispatching the newest idle source first
MainLoopDispatch_newestFirst ==
    /\ idleq /= <<>>
    /\ LET source == idleq[Len(idleq)]
       IN /\ delivered' = Append(delivered, Ran(source, op))
          /\ IF source.kind = "complete"
             THEN /\ ui' = [ui EXCEPT !.pc = "finished", !.operation_running = FALSE,
                                      !.status = IF op.success THEN "Completed"
                                                 ELSE "Operation failed"]
                  /\ op' = OpNone
             ELSE UNCHANGED <<ui, op>>
    /\ idleq' = SubSeq(idleq, 1, Len(idleq) - 1)
    /\ UNCHANGED <<extVars, devVars, writerVars, partVars, calls>>

\* the main loop dispatches the oldest idle source: progress_update_idle sets
\* the progress bar, write_complete_idle ends the operation and frees the op
MainLoopDispatch ==
    /\ idleq /= <<>>
    /\ LET source == Head(idleq)
       IN /\ delivered' = Append(delivered, Ran(source, op))
          /\ IF source.kind = "complete"
             THEN /\ ui' = [ui EXCEPT !.pc = "finished", !.operation_running = FALSE,
                                      !.status = IF op.success THEN "Completed"
                                                 ELSE "Operation failed"]
                  /\ op' = OpNone
             ELSE UNCHANGED <<ui, op>>
    /\ idleq' = Tail(idleq)
    /\ UNCHANGED <<extVars, devVars, writerVars, partVars, calls>>


\* format_partition: the mkfs tool is missing, or mkfs runs and fails or succeeds
FormatOutcomes == {"unsupported", "failed", "ok"}

FormatCall(part_number) ==
    [DeviceCall("format", op.device_path) EXCEPT
        !.dev = partition_get_path(op.device_path, part_number)]

needs_esp == op.target /= "BIOS" /\ op.part_style = "GPT"

\* a failing step of write_thread_func: success = FALSE, write_complete_idle
\* is posted and the thread returns
ThreadFails ==
    /\ op' = [op EXCEPT !.pc = "exited", !.success = FALSE]
    /\ idleq' = g_idle_add(idleq, CompleteSource)

\* write_thread_func, raw mode: iso_write_sync(iso_path, device_path, iso_write_progress, op)
ThreadRawCall ==
    /\ op.pc = "thread"
    /\ op.write_iso /\ ~op.iso_extract
    /\ \E size \in {op.iso, NoFile} :
          sy' = [SyIdle EXCEPT !.pc = "stat", !.iso = size, !.dev = op.device_path,
                               !.cb = "iso_write_progress"]
    /\ op' = [op EXCEPT !.pc = "raw_wait"]
    /\ UNCHANGED <<extVars, devVars, partVars, ui, idleq, delivered, calls, writer, mutex, call, wk,
                   dd, sectors, notes, syncs, kills, acc, cancelW>>

\* iso_write_sync returns: op->success, g_idle_add(write_complete_idle, op)
ThreadRawReturn ==
    /\ op.pc = "raw_wait"
    /\ sy.pc = "ret"
    /\ op' = [op EXCEPT !.pc = "exited", !.success = (sy.ret = "true")]
    /\ idleq' = g_idle_add(idleq, CompleteSource)
    /\ sy' = SyIdle
    /\ notes' = [notes EXCEPT ![SyncPid] = <<>>]
    /\ dd' = [dd EXCEPT ![SyncPid] = [st |-> "none", sig |-> FALSE]]
    /\ UNCHANGED <<extVars, devVars, partVars, ui, delivered, calls, writer, mutex, call, wk,
                   sectors, syncs, kills, acc, cancelW>>

\* write_thread_func calls partition_create_single_efi (file copy),
\* partition_create_bootable (format with an ESP) or partition_create_single
ThreadPartCall ==
    /\ op.pc = "thread"
    /\ ~(op.write_iso /\ ~op.iso_extract)
    /\ pt' = [pc |-> "entry",
              fn |-> IF op.iso_extract THEN "single_efi"
                     ELSE IF needs_esp THEN "bootable" ELSE "single",
              dev |-> op.device_path, style |-> op.part_style, target |-> op.target,
              fs |-> op.fs_type, ret |-> "none", found |-> disk]
    /\ op' = [op EXCEPT !.pc = "part_wait"]
    /\ UNCHANGED <<extVars, devVars, writerVars, disk, ui, idleq, delivered, calls>>

\* write_thread_func going on to the next stage whatever the partition call returned
ThreadPartReturn_ignoresFailure ==
    /\ op.pc = "part_wait"
    /\ pt.pc = "ret"
    /\ pt' = PtIdle
    /\ op' = [op EXCEPT !.pc = IF op.iso_extract THEN "x_format"
                                ELSE IF needs_esp THEN "esp_format" ELSE "format"]
    /\ UNCHANGED idleq
    /\ UNCHANGED <<extVars, devVars, writerVars, disk, ui, delivered, calls>>

\* the partition call returning true without the usleep that follows it
ThreadPartReturn_noSettle ==
    /\ op.pc = "part_wait"
    /\ pt.pc = "ret"
    /\ pt' = PtIdle
    /\ IF pt.ret = "true"
       THEN /\ op' = [op EXCEPT !.pc = IF op.iso_extract THEN "x_format"
                                       ELSE IF needs_esp THEN "esp_format" ELSE "format"]
            /\ UNCHANGED idleq
       ELSE ThreadFails
    /\ UNCHANGED <<extVars, devVars, writerVars, disk, ui, delivered, calls>>

\* the partition call returns to write_thread_func: false ends the job; true
\* is followed by usleep(1000000) and partition_get_path (lines 431, 477, 511)
ThreadPartReturn ==
    /\ op.pc = "part_wait"
    /\ pt.pc = "ret"
    /\ pt' = PtIdle
    /\ IF pt.ret = "true"
       THEN /\ op' = [op EXCEPT !.pc = IF op.iso_extract THEN "x_format"
                                       ELSE IF needs_esp THEN "esp_format" ELSE "format"]
            /\ calls' = Append(calls, DeviceCall("settle", op.device_path))
            /\ UNCHANGED idleq
       ELSE ThreadFails /\ UNCHANGED calls
    /\ UNCHANGED <<extVars, devVars, writerVars, disk, ui, delivered>>

\* format_partition of the ESP (format mode) or of the data partition (file copy)
ThreadFormatFirst ==
    /\ op.pc \in {"esp_format", "x_format"}
    /\ \E outcome \in FormatOutcomes :
          /\ calls' = IF outcome = "unsupported" THEN calls ELSE Append(calls, FormatCall(1))
          /\ IF outcome = "ok"
             THEN /\ op' = [op EXCEPT !.pc = IF op.pc = "x_format" THEN "extract" ELSE "format"]
                  /\ UNCHANGED idleq
             ELSE ThreadFails
    /\ UNCHANGED <<extVars, devVars, writerVars, partVars, ui, delivered>>

\* format mode: op->success = format_partition(partition_path), then
\* g_idle_add(write_complete_idle, op)
ThreadFormat ==
    /\ op.pc = "format"
    /\ \E outcome \in FormatOutcomes :
          /\ calls' = IF outcome = "unsupported" THEN calls
                      ELSE Append(calls, FormatCall(IF needs_esp THEN 2 ELSE 1))
          /\ op' = [op EXCEPT !.pc = "exited", !.success = (outcome = "ok")]
    /\ idleq' = g_idle_add(idleq, CompleteSource)
    /\ UNCHANGED <<extVars, devVars, writerVars, partVars, ui, delivered>>

\* iso_extract_to_partition up to progress(0.0, "Extracting ISO..."), or one
\* of its early returns
ThreadExtractBegin ==
    /\ op.pc = "extract"
    /\ \/ /\ op' = [op EXCEPT !.pc = "extract_run"]
          /\ idleq' = g_idle_add(idleq, Progress(0, 1))
       \/ ThreadFails
    /\ UNCHANGED <<extVars, devVars, writerVars, partVars, ui, delivered, calls>>

\* run_privileged(mount; extract; sync), progress(1.0 or 0.0), return rc == 0;
\* then g_idle_add(write_complete_idle, op)
ThreadExtractRun ==
    /\ op.pc = "extract_run"
    /\ \E rc_ok \in BOOLEAN :
          /\ op' = [op EXCEPT !.pc = "exited", !.success = rc_ok]
          /\ idleq' = g_idle_add(g_idle_add(idleq, Progress(IF rc_ok THEN 1 ELSE 0, 1)),
                                 CompleteSource)
    /\ calls' = Append(calls, [DeviceCall("extract", op.device_path) EXCEPT
                                  !.dev = partition_get_path(op.device_path, 1)])
    /\ UNCHANGED <<extVars, devVars, writerVars, partVars, ui, delivered>>

ThreadNext ==
    \/ ThreadRawCall \/ ThreadRawReturn \/ ThreadPartCall \/ ThreadPartReturn
    \/ ThreadFormatFirst \/ ThreadFormat \/ ThreadExtractBegin \/ ThreadExtractRun

\* the handlers of the main thread
UiMainNext ==
    \/ StartNoDevice \/ StartRejected \/ StartAccepted
    \/ DialogContinue \/ DialogCancel \/ UiRefresh \/ MainLoopDispatch

\* the job of the window: its threads, the writer and the partition engine
\* it calls, the copy process and the device
UiJobNext ==
    \/ UiMainNext \/ ThreadNext \/ SyncNext \/ PartNext
    \/ (\E j \in Pids : DdExit(j)) \/ DeviceWrite

UINext == UiJobNext \/ MountLate \/ UmountFs

----------------------------------------------------------------------------
(* format.c: format_partition and its child process                         *)

\* child: the forked process ("none", "running", then how it ended: "exit0",
\* "exit127" when execvp failed, "exitErr", "signaled"); reaped: the kernel
\* has released it; status: what waitpid stored in the local, "unset" while
\* nothing was stored; nocldwait: SIGCHLD is ignored in this process (the
\* disposition is inherited and the program never sets it), so a child that
\* ends is released at once and waitpid fails with ECHILD
\* progress: the caller passed a progress callback; pulses: the fractions it
\* was called with, in hundredths
FmIdle == [pc |-> "none", fs |-> "UNKNOWN", nocldwait |-> FALSE, child |-> "none",
           reaped |-> FALSE, status |-> "unset", polls |-> 0, ret |-> "none",
           progress |-> FALSE, pulses |-> <<>>]

\* the loop of format_partition is followed for this many rounds
MaxFormatPolls == 51

\* the ramp with no ceiling
FormatFraction_noCeiling(elapsed) == elapsed * 2

\* line 209: frac = elapsed < 50 ? elapsed * 0.02 : 0.99, in hundredths
FormatFraction(elapsed) == IF elapsed < 50 THEN elapsed * 2 ELSE 99

\* progress(frac, ...) when the callback is set
FmPulse(f, frac) == IF f.progress THEN Append(f.pulses, frac) ELSE f.pulses

FmFrame == UNCHANGED <<moreVars, racer, nthreads, xt, devVars, writerVars, partVars, uiVars, calls>>

\* format_is_supported (format.c 46-56): system("which <mkfs> ...") == 0.
\* system() waits for its own child, so with SIGCHLD ignored it returns -1
format_is_supported(tool_found, nocldwait) == tool_found /\ ~nocldwait

\* lines 137-165: the arguments, format_is_supported, build_mkfs_args
FmEnter ==
    /\ fm.pc = "none" /\ xt.pc = "none"
    /\ \E fs \in FsTypes, tool_found \in BOOLEAN, nocldwait \in BOOLEAN, progress \in BOOLEAN :
          LET supported == format_is_supported(tool_found, nocldwait)
          IN fm' = [FmIdle EXCEPT !.fs = fs, !.nocldwait = nocldwait,
                                  !.progress = progress,
                                  !.pulses = IF supported /\ progress THEN <<0>> ELSE <<>>,
                                  !.pc = IF supported THEN "fork" ELSE "ret",
                                  !.ret = IF supported THEN "none" ELSE "false"]
    /\ FmFrame

\* lines 167-172: fork()
FmFork ==
    /\ fm.pc = "fork"
    /\ \E forked \in BOOLEAN :
          fm' = IF forked THEN [fm EXCEPT !.pc = "wait", !.child = "running"]
                ELSE [fm EXCEPT !.pc = "ret", !.ret = "false"]
    /\ FmFrame

\* lines 174-193, the child: execvp fails and the child leaves with
\* _exit(127), or the tool (mkfs, or pkexec running it) runs and ends
FmChildEnds ==
    /\ fm.child = "running"
    /\ \E how \in {"exit0", "exit127", "exitErr", "signaled"} :
          fm' = [fm EXCEPT !.child = how, !.reaped = fm.nocldwait]
    /\ FmFrame

\* line 203: waitpid(pid, &status, WNOHANG) returns 0, the loop body runs:
\* usleep, elapsed++, progress(frac)
FmWaitRunning ==
    /\ fm.pc = "wait"
    /\ fm.child = "running"
    /\ fm.polls < MaxFormatPolls
    /\ fm' = [fm EXCEPT !.polls = @ + 1, !.pulses = FmPulse(fm, FormatFraction(fm.polls + 1))]
    /\ FmFrame

\* line 203: waitpid returns the pid and stores the status, or fails with
\* ECHILD and stores nothing; either way the loop ends
FmWaitEnds ==
    /\ fm.pc = "wait"
    /\ fm.child /= "running"
    /\ fm' = IF fm.reaped THEN [fm EXCEPT !.pc = "test"]
             ELSE [fm EXCEPT !.pc = "test", !.status = fm.child, !.reaped = TRUE]
    /\ FmFrame

\* the final test as WIFEXITED(status) alone
FmTest_exitedOnly ==
    /\ fm.pc = "test"
    /\ \E garbage \in {"exit0", "exitErr", "signaled"} :
          LET status == IF fm.status = "unset" THEN garbage ELSE fm.status
          IN fm' = [fm EXCEPT !.pc = "ret", !.pulses = FmPulse(fm, 100),
                              !.ret = IF status /= "signaled" THEN "true" ELSE "false"]
    /\ FmFrame

\* lines 213-223: progress(1.0); WIFEXITED(status) && WEXITSTATUS(status) == 0.
\* A status that was never stored is an uninitialized int: any value
FmTest ==
    /\ fm.pc = "test"
    /\ \E garbage \in {"exit0", "exitErr", "signaled"} :
          LET status == IF fm.status = "unset" THEN garbage ELSE fm.status
          IN fm' = [fm EXCEPT !.pc = "ret", !.pulses = FmPulse(fm, 100),
                              !.ret = IF status = "exit0" THEN "true" ELSE "false"]
    /\ FmFrame

\* the call returns to its caller
FmReturn ==
    /\ fm.pc = "ret"
    /\ fm' = FmIdle
    /\ FmFrame

FmNext ==
    \/ FmEnter \/ FmFork \/ FmChildEnds \/ FmWaitRunning \/ FmWaitEnds \/ FmTest \/ FmReturn

----------------------------------------------------------------------------
(* iso_extract.c: iso_extract_to_partition and the shell script it runs     *)

\* the directory mkdtemp makes from "/tmp/rufus-mount-XXXXXX"
S_mountdir == <<"/", "t", "m", "p", "/", "r", "u", "f", "u", "s", "-", "m", "o", "u", "n", "t">>

\* select_extract_tool: the first tool found, "none" for NULL
ExtractTools == {"xorriso", "bsdtar", "7z", "none"}

\* mounted: the script's mount succeeded; trap: the EXIT trap is set;
\* rc: what run_privileged returned, 0 or not; pulses: the progress calls
XtIdle == [pc |-> "none", part |-> <<>>, tool |-> "none", root |-> FALSE,
           mounted |-> FALSE, trap |-> FALSE, rc |-> "none", pulses |-> <<>>, ret |-> "none"]

\* the mount directory carries a filesystem
DirMounted == \E i \in 1..Len(procMounts) : procMounts[i].dir = S_mountdir

XtFrame == UNCHANGED <<moreVars, racer, nthreads, fm, devices, writerVars, partVars, uiVars, calls>>

\* lines 61-76: the arguments, select_extract_tool, stat(iso_path)
XtEnter ==
    /\ xt.pc = "none" /\ fm.pc = "none"
    /\ \E dev \in {S_dev \o S_sda, S_dev \o S_sdb}, tool \in ExtractTools, root \in BOOLEAN,
          iso_found \in BOOLEAN :
          xt' = [XtIdle EXCEPT !.part = partition_get_path(dev, 1), !.tool = tool, !.root = root,
                               !.pc = IF tool = "none" \/ ~iso_found THEN "ret" ELSE "mkdtemp",
                               !.ret = IF tool = "none" \/ ~iso_found THEN "false" ELSE "none"]
    /\ UNCHANGED procMounts
    /\ XtFrame

\* lines 78-105: mkdtemp, build_extract_command, the script, progress(0.0)
XtPrepare ==
    /\ xt.pc = "mkdtemp"
    /\ \E made \in BOOLEAN :
          xt' = IF made THEN [xt EXCEPT !.pc = "run", !.pulses = <<0>>]
                ELSE [xt EXCEPT !.pc = "ret", !.ret = "false"]
    /\ UNCHANGED procMounts
    /\ XtFrame

\* line 107, run_privileged (utils.c 46-61): system(cmd) as root; otherwise
\* pkexec is not found and -1 is returned, or pkexec refuses and the script
\* is not run, or pkexec runs sh -c "<script>"
XtRunPrivileged ==
    /\ xt.pc = "run"
    /\ \E started \in BOOLEAN :
          /\ xt.root => started
          /\ xt' = IF started THEN [xt EXCEPT !.pc = "mount"]
                   ELSE [xt EXCEPT !.pc = "after", !.rc = "nonzero"]
    /\ UNCHANGED procMounts
    /\ XtFrame

\* "set -e; mount <partition> <dir>": a failing mount ends the shell
XtMount ==
    /\ xt.pc = "mount"
    /\ \E ok \in BOOLEAN :
          IF ok
          THEN /\ procMounts' = Append(procMounts, [fsname |-> xt.part, dir |-> S_mountdir])
               /\ xt' = [xt EXCEPT !.pc = "trap", !.mounted = TRUE]
          ELSE /\ procMounts' = procMounts
               /\ xt' = [xt EXCEPT !.pc = "exit", !.rc = "nonzero"]
    /\ XtFrame

\* "trap 'umount <dir>' EXIT"
XtTrap ==
    /\ xt.pc = "trap"
    /\ xt' = [xt EXCEPT !.pc = "extract", !.trap = TRUE]
    /\ UNCHANGED procMounts
    /\ XtFrame

\* "<extract command>; sync": under set -e the first failing command ends the
\* shell with its status, after sync the shell ends with status 0
XtCommand ==
    /\ xt.pc \in {"extract", "sync"}
    /\ \E ok \in BOOLEAN :
          xt' = IF ~ok THEN [xt EXCEPT !.pc = "exit", !.rc = "nonzero"]
                ELSE IF xt.pc = "extract" THEN [xt EXCEPT !.pc = "sync"]
                ELSE [xt EXCEPT !.pc = "exit", !.rc = "zero"]
    /\ UNCHANGED procMounts
    /\ XtFrame

\* the shell ends without running the trap's umount
XtShellExit_noTrapOnFailure ==
    /\ xt.pc = "exit"
    /\ procMounts' = IF xt.trap /\ xt.rc = "zero"
                     THEN SelectSeq(procMounts, LAMBDA m : m.dir /= S_mountdir)
                     ELSE procMounts
    /\ xt' = [xt EXCEPT !.pc = "after"]
    /\ XtFrame

\* the shell ends: the EXIT trap, when set, runs umount <dir>
XtShellExit ==
    /\ xt.pc = "exit"
    /\ procMounts' = IF xt.trap THEN SelectSeq(procMounts, LAMBDA m : m.dir /= S_mountdir)
                     ELSE procMounts
    /\ xt' = [xt EXCEPT !.pc = "after"]
    /\ XtFrame

\* lines 109-119: progress(rc == 0 ? 1.0 : 0.0), rmdir, return rc == 0
XtFinish ==
    /\ xt.pc = "after"
    /\ xt' = [xt EXCEPT !.pc = "ret",
                        !.pulses = Append(@, IF xt.rc = "zero" THEN 1 ELSE 0),
                        !.ret = IF xt.rc = "zero" THEN "true" ELSE "false"]
    /\ UNCHANGED procMounts
    /\ XtFrame

\* the call returns to its caller
XtReturn ==
    /\ xt.pc = "ret"
    /\ xt' = XtIdle
    /\ UNCHANGED procMounts
    /\ XtFrame

XtNext ==
    \/ XtEnter \/ XtPrepare \/ XtRunPrivileged \/ XtMount \/ XtTrap \/ XtCommand
    \/ XtShellExit \/ XtFinish \/ XtReturn

----------------------------------------------------------------------------
(* A second thread calling iso_writer_start on the same writer               *)
(* (iso_writer.c 283-326), with an image file that exists                     *)

Racer == 0 - 2

RacerIdle == [pc |-> "none", arg |-> 0, ret |-> "none"]

\* line 293: pthread_mutex_lock
RacerLock ==
    /\ racer.pc = "none"
    /\ mutex = 0
    /\ mutex' = Racer
    /\ \E iso \in IsoSizes : racer' = [pc |-> "st_check", arg |-> iso, ret |-> "none"]
    /\ acc' = {}
    /\ kills' = {}
    /\ UNCHANGED <<moreVars, nthreads, fm, xt, devVars, partVars, uiVars, calls, sy, writer, call,
                   wk, dd, sectors, notes, syncs, cancelW>>

\* lines 294-305: if (writer->thread_running) return false; unlock; stat
RacerCheck ==
    /\ racer.pc = "st_check"
    /\ acc' = {Access(Racer, "thread_running", "read")}
    /\ mutex' = 0
    /\ IF writer.thread_running
       THEN racer' = [racer EXCEPT !.pc = "done", !.ret = "false"]
       ELSE racer' = [racer EXCEPT !.pc = "st_init"]
    /\ kills' = {}
    /\ UNCHANGED <<moreVars, nthreads, fm, xt, devVars, partVars, uiVars, calls, sy, writer, call,
                   wk, dd, sectors, notes, syncs, cancelW>>

\* lines 307-316: the parameters, cancel_requested = false, thread_running = true
RacerInit ==
    /\ racer.pc = "st_init"
    /\ writer' = [writer EXCEPT !.iso_size = racer.arg,
                                !.cancel_requested = FALSE,
                                !.thread_running = TRUE]
    /\ acc' = {Access(Racer, "cancel_requested", "write"),
               Access(Racer, "thread_running", "write")}
    /\ racer' = [racer EXCEPT !.pc = "st_create"]
    /\ kills' = {}
    /\ UNCHANGED <<moreVars, nthreads, fm, xt, devVars, partVars, uiVars, calls, sy, mutex, call,
                   wk, dd, sectors, notes, syncs, cancelW>>

\* lines 318-325: pthread_create succeeds
RacerCreate ==
    /\ racer.pc = "st_create"
    /\ ThreadCreate
    /\ racer' = [racer EXCEPT !.pc = "done", !.ret = "true"]
    /\ acc' = {}
    /\ kills' = {}
    /\ UNCHANGED <<moreVars, fm, xt, devVars, partVars, uiVars, calls, sy, writer, mutex, call, sectors>>

\* the two callers, the worker and the exits of the copy process, followed
\* until a second writer thread exists
RaceNext ==
    /\ nthreads < 2
    /\ \/ CallerNext \/ WorkerNext
       \/ (\E j \in Pids : DdExit(j) \/ DdTerminated(j))
       \/ RacerLock \/ RacerCheck \/ RacerInit \/ RacerCreate

----------------------------------------------------------------------------
(* How the four tools are launched: run_privileged (utils.c), the child of  *)
(* format_partition (format.c) and the children of the writers              *)
(* (iso_writer.c)                                                           *)

\* op: the tool asked for; root: geteuid() == 0; fixed: pkexec is executable
\* at /usr/bin/pkexec or /bin/pkexec; inpath: execvp finds pkexec on PATH;
\* argv: the command line handed to the kernel, <<>> when nothing was executed;
\* ran: the tool itself was started; rc: the exit status the caller sees
LaunchOps == {"sfdisk", "extract", "mkfs", "dd", "dd_sync"}

PxIdle == [pc |-> "none", op |-> "sfdisk", root |-> FALSE, fixed |-> FALSE, inpath |-> FALSE,
           argv |-> <<>>, ran |-> FALSE, rc |-> "none"]

PxFrame == UNCHANGED <<pf, pp, udev, racer, nthreads, fm, xt, devVars, writerVars, partVars, uiVars, calls>>

\* the process is about to launch one of the tools
PxEnter ==
    /\ px.pc = "none"
    /\ \E o \in LaunchOps, root \in BOOLEAN, fixed \in BOOLEAN, inpath \in BOOLEAN :
          px' = [PxIdle EXCEPT !.pc = "launch", !.op = o, !.root = root, !.fixed = fixed,
                               !.inpath = inpath]
    /\ PxFrame

\* get_pkexec_path (utils.c 68-82): the first of the two fixed paths that is
\* executable, "none" for NULL
get_pkexec_path(fixed) == IF fixed THEN "pkexec" ELSE "none"

\* run_privileged (utils.c 46-61), called for sfdisk (partition.c 87, 112,
\* 141) and for the extract script (iso_extract.c 107)
PxRunPrivileged ==
    /\ px.pc = "launch"
    /\ px.op \in {"sfdisk", "extract"}
    /\ px' = IF px.root THEN [px EXCEPT !.pc = "tool", !.argv = <<"sh", "-c", px.op>>]
             ELSE IF get_pkexec_path(px.fixed) = "none"
             THEN [px EXCEPT !.pc = "done", !.rc = "minus1"]
             ELSE [px EXCEPT !.pc = "pkexec",
                             !.argv = <<get_pkexec_path(px.fixed), "sh", "-c", px.op>>]
    /\ PxFrame

\* the child of format_partition with the tool started directly whoever calls
PxExecFormat_direct ==
    /\ px.pc = "launch"
    /\ px.op = "mkfs"
    /\ px' = [px EXCEPT !.pc = "tool", !.argv = <<px.op>>]
    /\ PxFrame

\* the child of format_partition (format.c 174-194): execvp of pkexec with the
\* mkfs arguments when geteuid() != 0, of mkfs itself otherwise; _exit(127)
\* when execvp fails
PxExecFormat ==
    /\ px.pc = "launch"
    /\ px.op = "mkfs"
    /\ px' = IF px.root THEN [px EXCEPT !.pc = "tool", !.argv = <<px.op>>]
             ELSE IF px.inpath THEN [px EXCEPT !.pc = "pkexec", !.argv = <<"pkexec", px.op>>]
             ELSE [px EXCEPT !.pc = "done", !.rc = "exit127"]
    /\ PxFrame

\* the children of writer_thread (iso_writer.c 138-152, pkexec sh -c "dd ...")
\* and of iso_write_sync (lines 382-401, pkexec dd ...): execlp of pkexec
\* whoever calls, _exit(127) when it fails
PxExecDd ==
    /\ px.pc = "launch"
    /\ px.op \in {"dd", "dd_sync"}
    /\ px' = IF px.inpath
             THEN [px EXCEPT !.pc = "pkexec",
                             !.argv = IF px.op = "dd" THEN <<"pkexec", "sh", "-c", "dd">>
                                      ELSE <<"pkexec", "dd">>]
             ELSE [px EXCEPT !.pc = "done", !.rc = "exit127"]
    /\ PxFrame

\* pkexec authorises the caller and starts the command, or refuses
PxPkexec ==
    /\ px.pc = "pkexec"
    /\ \E authorised \in BOOLEAN :
          px' = IF authorised THEN [px EXCEPT !.pc = "tool"]
                ELSE [px EXCEPT !.pc = "done", !.rc = "exit126"]
    /\ PxFrame

\* the tool runs and ends with status 0 or not
PxTool ==
    /\ px.pc = "tool"
    /\ \E rc \in {"exit0", "exit1"} : px' = [px EXCEPT !.pc = "done", !.ran = TRUE, !.rc = rc]
    /\ PxFrame

\* the caller has the status; the next launch may begin
PxReturn ==
    /\ px.pc = "done"
    /\ px' = PxIdle
    /\ PxFrame

PxNext ==
    \/ PxEnter \/ PxRunPrivileged \/ PxExecFormat \/ PxExecDd \/ PxPkexec \/ PxTool
    \/ PxReturn

----------------------------------------------------------------------------
(* partition.c: partition_get_path called with any device and number        *)

\* device paths: plain disks, the three families named in the code, a name
\* ending in a digit, names that only come close to a family name, a path
\* without a directory and a path without a base name
PathDevices ==
    { S_dev \o S_sda, S_dev \o S_sdb, S_dev \o S_loop0, S_sda,
      S_dev \o <<"n", "v", "m", "e", "0", "n", "1">>,
      S_dev \o <<"m", "m", "c", "b", "l", "k", "0">>,
      S_dev \o <<"m", "d", "0">>,
      S_dev \o <<"n", "v", "m">>,
      S_dev \o <<"x", "l", "o", "o", "p">>,
      S_dev \o <<"l", "o", "o", "p", ".", "d", "/">> \o S_sda,
      S_dev \o <<"n", "v", "m", "e">>,
      S_dev }

PathNumbers == {0, 1, 2, 9, 10, 128}

PpIdle == [pc |-> "none", device |-> <<>>, part_number |-> 0, path |-> <<>>]

PpFrame == UNCHANGED <<pf, px, udev, racer, nthreads, fm, xt, devVars, writerVars, partVars, uiVars, calls>>

\* a caller asks for the path of a partition
PathCall ==
    /\ pp.pc = "none"
    /\ \E device \in PathDevices, n \in PathNumbers :
          pp' = [pc |-> "called", device |-> device, part_number |-> n, path |-> <<>>]
    /\ PpFrame

\* partition_get_path returns the string
PathReturn ==
    /\ pp.pc = "called"
    /\ pp' = [pp EXCEPT !.pc = "returned",
                        !.path = partition_get_path(pp.device, pp.part_number)]
    /\ PpFrame

\* the caller frees the string
PathFree ==
    /\ pp.pc = "returned"
    /\ pp' = PpIdle
    /\ PpFrame

----------------------------------------------------------------------------
(* format.c: build_mkfs_args; partition.c: the type a new partition gets     *)

\* fs_type_t (platform.h 34-46) without FS_MAX
FsKinds == {"UNKNOWN", "FAT16", "FAT32", "NTFS", "UDF", "EXFAT", "REFS", "EXT2", "EXT3", "EXT4"}

\* a null char pointer
NULL == "(null)"

\* mkfs_commands (format.c 26-35): command, label_opt, cluster_opt
mkfs_commands ==
    [fs \in {"FAT16", "FAT32", "NTFS", "EXFAT", "EXT2", "EXT3", "EXT4", "UDF"} |->
        CASE fs \in {"FAT16", "FAT32"} ->
                [command |-> "mkfs.fat", label_opt |-> "-n", cluster_opt |-> "-s"]
          [] fs = "NTFS" -> [command |-> "mkfs.ntfs", label_opt |-> "-L", cluster_opt |-> "-c"]
          [] fs = "EXFAT" -> [command |-> "mkfs.exfat", label_opt |-> "-L", cluster_opt |-> "-s"]
          [] fs = "EXT2" -> [command |-> "mkfs.ext2", label_opt |-> "-L", cluster_opt |-> "-b"]
          [] fs = "EXT3" -> [command |-> "mkfs.ext3", label_opt |-> "-L", cluster_opt |-> "-b"]
          [] fs = "EXT4" -> [command |-> "mkfs.ext4", label_opt |-> "-L", cluster_opt |-> "-b"]
          [] fs = "UDF" -> [command |-> "mkudffs", label_opt |-> "-l", cluster_opt |-> NULL]]

\* calloc(16, sizeof(char *))
MKFS_ARG_SLOTS == 16

\* build_mkfs_args with the cluster size always given in bytes
build_mkfs_args_bytesAlways(partition_path, opts) ==
    IF opts.fs_type \notin DOMAIN mkfs_commands THEN [null |-> TRUE, args |-> <<>>]
    ELSE LET info == mkfs_commands[opts.fs_type]
         IN [null |-> FALSE,
             args |-> <<info.command>>
                 \o (CASE opts.fs_type = "FAT16" -> <<"-F", "16">>
                       [] opts.fs_type = "FAT32" -> <<"-F", "32">>
                       [] OTHER -> <<>>)
                 \o (IF opts.fs_type = "NTFS" /\ opts.quick_format THEN <<"-Q">> ELSE <<>>)
                 \o (IF opts.label /= NULL /\ opts.label /= "" /\ info.label_opt /= NULL
                     THEN <<info.label_opt, opts.label>> ELSE <<>>)
                 \o (IF opts.cluster_size > 0 /\ info.cluster_opt /= NULL
                     THEN <<info.cluster_opt, ToString(opts.cluster_size)>>
                     ELSE <<>>)
                 \o <<partition_path>>]

\* build_mkfs_args (format.c 64-123): null when the kind has no entry in
\* mkfs_commands, else the strings in args[0..n-1]; "%u" is the decimal
\* numeral of the number
build_mkfs_args(partition_path, opts) ==
    IF opts.fs_type \notin DOMAIN mkfs_commands THEN [null |-> TRUE, args |-> <<>>]
    ELSE LET info == mkfs_commands[opts.fs_type]
         IN [null |-> FALSE,
             args |-> <<info.command>>
                 \o (CASE opts.fs_type = "FAT16" -> <<"-F", "16">>
                       [] opts.fs_type = "FAT32" -> <<"-F", "32">>
                       [] OTHER -> <<>>)
                 \o (IF opts.fs_type = "NTFS" /\ opts.quick_format THEN <<"-Q">> ELSE <<>>)
                 \o (IF opts.label /= NULL /\ opts.label /= "" /\ info.label_opt /= NULL
                     THEN <<info.label_opt, opts.label>> ELSE <<>>)
                 \o (IF opts.cluster_size > 0 /\ info.cluster_opt /= NULL
                     THEN <<info.cluster_opt,
                            IF opts.fs_type \in {"FAT16", "FAT32"}
                            THEN ToString(opts.cluster_size \div 512)
                            ELSE ToString(opts.cluster_size)>>
                     ELSE <<>>)
                 \o <<partition_path>>]

\* the requests build_mkfs_args is called with
MkfsLabels == {NULL, "", "RUFUX"}
MkfsClusterSizes == {0, 256, 4096, 65536}

PfIdle == [pc |-> "none", fn |-> "none", fs_type |-> "UNKNOWN", label |-> NULL,
           cluster_size |-> 0, quick_format |-> FALSE, style |-> "MBR", bootable |-> FALSE,
           null |-> FALSE, args |-> <<>>, type |-> "none", boot |-> FALSE]

PfFrame == UNCHANGED <<px, pp, udev, racer, nthreads, fm, xt, devVars, writerVars, partVars, uiVars, calls>>

\* format_partition is about to build the arguments of a request
MkfsCall ==
    /\ pf.pc = "none"
    /\ \E fs \in FsKinds, label \in MkfsLabels, cluster_size \in MkfsClusterSizes,
          quick \in BOOLEAN :
          pf' = [PfIdle EXCEPT !.pc = "called", !.fn = "build_mkfs_args", !.fs_type = fs,
                               !.label = label, !.cluster_size = cluster_size,
                               !.quick_format = quick]
    /\ PfFrame

\* build_mkfs_args returns
MkfsReturn ==
    /\ pf.pc = "called"
    /\ pf.fn = "build_mkfs_args"
    /\ LET built == build_mkfs_args("/dev/sdb1", pf)
       IN pf' = [pf EXCEPT !.pc = "returned", !.null = built.null, !.args = built.args]
    /\ PfFrame

\* partition_add or partition_add_efi is called for an entry of a filesystem
\* kind on a device with an empty label of a style
AddCall ==
    /\ pf.pc = "none"
    /\ \E fn \in {"partition_add", "partition_add_efi"}, fs \in FsKinds, style \in PartStyles,
          bootable \in BOOLEAN :
          pf' = [PfIdle EXCEPT !.pc = "called", !.fn = fn, !.fs_type = fs, !.style = style,
                               !.bootable = bootable]
    /\ PfFrame

\* the partition is added: its type and its active flag
AddReturn ==
    /\ pf.pc = "called"
    /\ pf.fn \in {"partition_add", "partition_add_efi"}
    /\ LET d == [label |-> LabelOf(pf.style), parts |-> <<>>]
           part == [start |-> 0, size |-> 0, fs_type |-> pf.fs_type, bootable |-> pf.bootable]
           e == IF pf.fn = "partition_add_efi" THEN partition_add_efi(d, S_dev \o S_sdb, part)
                ELSE partition_add(d, S_dev \o S_sdb, part)
       IN pf' = [pf EXCEPT !.pc = "returned", !.type = e.type, !.boot = e.boot]
    /\ PfFrame

\* the caller is done with the result
PfFree ==
    /\ pf.pc = "returned"
    /\ pf' = PfIdle
    /\ PfFrame

----------------------------------------------------------------------------
(* Specifications *)

\* no second caller, no writer thread, no tool call
ExtIdle ==
    /\ racer = RacerIdle
    /\ nthreads = 0
    /\ fm = FmIdle
    /\ xt = XtIdle
    /\ px = PxIdle
    /\ pp = PpIdle
    /\ pf = PfIdle

DevInit == DevIdle /\ WriterIdle /\ PartIdle /\ UiIdle /\ ExtIdle

SpecDev == DevInit /\ [][DevNext]_vars

\* device_enumerate called with any scan result and any mount table
EnumInit ==
    /\ udev \in UdevScans
    /\ procMounts \in UNION {[1..n -> MountEntries] : n \in 0..MaxMounts}
    /\ devices = <<>>
    /\ WriterIdle /\ PartIdle /\ UiIdle /\ ExtIdle

SpecEnum == EnumInit /\ [][DeviceEnumerate]_vars

\* the writer, with the counter at any value when the writer is created
WriterInit ==
    /\ DevIdle
    /\ \E s0 \in 0..1 :
          /\ sectors = s0
          /\ writer = [state |-> "Idle", dd_pid |-> -1, cancel_requested |-> FALSE,
                       thread_running |-> FALSE, iso_size |-> 0]
    /\ mutex = 0
    /\ call = [pc |-> "idle", arg |-> 0, ret |-> "none"]
    /\ wk = [j \in Jobs |-> WkIdle]
    /\ dd = [j \in Pids |-> [st |-> "none", sig |-> FALSE]]
    /\ notes = [j \in Pids |-> <<>>]
    /\ syncs = {}
    /\ kills = {}
    /\ acc = {}
    /\ cancelW = {}
    /\ sy = SyIdle
    /\ PartIdle
    /\ UiIdle
    /\ ExtIdle

SpecWriter == WriterInit /\ [][WriterNext]_vars

\* the writer started, cancelled, queried and freed by one calling thread
SpecFree ==
    WriterInit /\ [][CallerNext \/ FreeNext \/ WorkerNext
                       \/ (\E j \in Pids : DdExit(j) \/ DdTerminated(j))]_vars

\* the writer under a fair scheduler: the worker thread keeps running, it gets
\* the mutex when the mutex is free again and again, a thread that holds the
\* mutex goes on to release it, and the copy process ends (by itself or from a
\* pending SIGTERM)
LiveNext == CallerNext \/ WorkerNext \/ (\E j \in Pids : DdExit(j) \/ DdTerminated(j))

SpecLive ==
    /\ WriterInit
    /\ [][LiveNext]_vars
    /\ WF_vars(WorkerNext)
    /\ SF_vars(\E j \in Jobs : WorkerLock(j))
    /\ WF_vars(StartCheck \/ CancelBody \/ IsRunningBody \/ GetStateBody)
    /\ WF_vars(\E j \in Pids : DdExit(j) \/ DdTerminated(j))

\* the writer with two calling threads
SpecRace == WriterInit /\ [][RaceNext]_vars

\* iso_extract_to_partition and format_partition called directly
SpecTools == DevInit /\ [][XtNext \/ FmNext]_vars

\* the launch of each tool by a root or an unprivileged process
SpecPriv == DevInit /\ [][PxNext]_vars

\* partition_get_path called directly
SpecLib == DevInit /\ [][MkfsCall \/ MkfsReturn \/ AddCall \/ AddReturn \/ PfFree]_vars

SpecPath == DevInit /\ [][PathCall \/ PathReturn \/ PathFree]_vars

\* the partition engine called directly
SpecPart == DevInit /\ [][PartEnter \/ TableEnter \/ PartNext \/ PartReturn]_vars

\* the main window after rufus_window_init, opened with the given mount
\* table: the devices are enumerated, the main thread runs the GTK main loop
UiStart(table) ==
    /\ udev = UdevDisks
    /\ procMounts = table
    /\ devices = device_enumerate(procMounts)
    /\ writer = [state |-> "Idle", dd_pid |-> -1, cancel_requested |-> FALSE,
                 thread_running |-> FALSE, iso_size |-> 0]
    /\ mutex = 0
    /\ call = [pc |-> "gtk_main", arg |-> 0, ret |-> "none"]
    /\ wk = [j \in Jobs |-> WkIdle]
    /\ dd = [j \in Pids |-> [st |-> "none", sig |-> FALSE]]
    /\ sectors = 0
    /\ notes = [j \in Pids |-> <<>>]
    /\ syncs = {}
    /\ kills = {}
    /\ acc = {}
    /\ cancelW = {}
    /\ sy = SyIdle
    /\ PartIdle
    /\ ui = [pc |-> "ready", operation_running |-> FALSE, status |-> "READY",
             request |-> NoRequest, confirm |-> NoConfirm]
    /\ op = OpNone
    /\ idleq = <<>>
    /\ delivered = <<>>
    /\ calls = <<>>
    /\ ExtIdle

UiInit == UiStart(<<>>)

SpecUI == UiInit /\ [][UINext]_vars

\* the two ways notifications reach a caller: the writer driven directly, with
\* its callbacks run on the worker thread, or the window, with its callbacks
\* posted to the main loop of a window opened with or without the USB disk in
\* use under /home
NotifyInit ==
    \/ WriterInit
    \/ UiInit
    \/ UiStart(<<[fsname |-> S_dev \o S_sdb \o <<"1">>, dir |-> S_home]>>)

SpecNotify == NotifyInit /\ [][WriterNext \/ UiJobNext]_vars

----------------------------------------------------------------------------
(* C1 *)

\* the forbidden set as the specification words it
ForbiddenPath(p) ==
    \/ p \in {S_root, S_boot, S_bootefi, S_home}
    \/ (Len(p) >= 6 /\ SubSeq(p, 1, 6) = S_homeSlash)

\* C1: a device whose mountpoint set (own mounts and partitions' mounts) holds
\* /, /boot, /boot/efi, /home or a path under /home/ is a system drive, and a
\* device_enumerate over the same mount table does not list it; no listed
\* device carries a forbidden mountpoint.
C1_ForbiddenNeverEligible ==
    /\ LET listed == device_enumerate(procMounts)
       IN \A k \in 1..Len(UdevDisks) :
          LET m == get_mountpoints(UdevDisks[k].devnode, procMounts)
          IN (\E i \in 1..Len(m) : ForbiddenPath(m[i])) =>
                /\ device_is_system_drive([mountpoints |-> m])
                /\ \A n \in 1..Len(listed) :
                      listed[n].name /= UdevDisks[k].sysname
    /\ \A n \in 1..Len(devices) :
          \A i \in 1..Len(devices[n].mountpoints) :
              ~ForbiddenPath(devices[n].mountpoints[i])

\* the USB disk has a partition mounted under /home/ and the enumeration made
\* since lists no device
C1_Witness ==
    /\ \E i \in 1..Len(procMounts) :
          /\ procMounts[i].dir = S_homeU
          /\ procMounts[i].fsname = S_dev \o S_sdb \o <<"1">>
    /\ devices = <<>>

----------------------------------------------------------------------------
(* C2 *)

\* C2: no call that changes the device (unmount, partition-table write,
\* format, raw copy, extract) is issued while the device's current mount set
\* holds a forbidden mount: a forbidden mount that appeared after the
\* enumeration aborts the job.
C2_NoCallOnForbiddenDevice ==
    \A i \in 1..Len(calls) : ~calls[i].forbidden

----------------------------------------------------------------------------
(* C3 *)

\* C3: a job for which iso_writer_cancel ran while the state was Writing, and
\* whose dd child was started, ends in Cancelled: its completion callback
\* carries Cancelled, the writer is never in Syncing or Complete while that
\* job is live, and sync() is not called for it.
C3_CancelEndsCancelled ==
    \A j \in {k \in cancelW : dd[k].st /= "none"} :
        /\ j \notin syncs
        /\ (ActiveJob = j => writer.state \notin {"Syncing", "Complete"})
        /\ \A i \in 1..Len(notes[j]) :
              notes[j][i].kind = "complete" => notes[j][i].state = "Cancelled"

----------------------------------------------------------------------------
(* C4 *)

\* C4: once the writer is in Complete, Error or Cancelled its state never
\* changes again.
C4_TerminalIsFinal ==
    [][writer.state \in Terminal => writer'.state = writer.state]_vars

----------------------------------------------------------------------------
(* C5 *)

\* C5: iso_writer_start with a source larger than the destination device
\* starts no copy: no dd child exists for the job and the state does not
\* become Writing.
C5_OversizeRejected ==
    (ActiveJob = Worker /\ writer.iso_size > DevBytes) =>
        /\ dd[Worker].st = "none"
        /\ writer.state /= "Writing"

----------------------------------------------------------------------------
(* C6 *)

\* C6: a successful partition_create_bootable with style GPT and target UEFI
\* or BIOS+UEFI leaves exactly two partitions: the first of 256 MiB with the
\* EFI System type, the second starting after it and ending at the last
\* usable sector.
C6_EspThenRemainder ==
    (/\ pt.pc = "ret" /\ pt.ret = "true" /\ pt.fn = "bootable"
     /\ pt.style = "GPT" /\ pt.target \in {"UEFI", "BIOS_UEFI"}) =>
        /\ Len(disk.parts) = 2
        /\ disk.parts[1].size = ESP_BYTES \div fdisk_sector_size
        /\ disk.parts[1].type = GPT_TYPE_EFI
        /\ disk.parts[2].start >= disk.parts[1].start + disk.parts[1].size
        /\ disk.parts[2].start + disk.parts[2].size - 1 = LastUsable(pt.dev, "gpt")

----------------------------------------------------------------------------
(* C7 *)

\* the completion the main loop has run for a successful raw-mode job
RawSuccess(c) == c.kind = "complete" /\ c.mode = "raw" /\ c.state = "success"

CallsNamed(name) == {i \in 1..Len(calls) : calls[i].call = name}

----------------------------------------------------------------------------
(* C8 *)

ProgressNotes(j) == SelectSeq(notes[j], LAMBDA n : n.kind = "progress")

SamplesOK(j) == IF j = SyncPid THEN sy.samplesOK ELSE wk[j].samplesOK

\* C8: when the sector-counter samples of a copy were non-decreasing from the
\* baseline on, the byte counts handed to the progress callback, the final
\* 100% report included, are non-decreasing and none exceeds the source size.
C8_ProgressMonotone ==
    \A j \in Pids :
        SamplesOK(j) =>
            LET P == ProgressNotes(j)
            IN \A i \in 1..Len(P) :
                  /\ P[i].bytes <= P[i].total
                  /\ \A k \in i..Len(P) : P[i].bytes <= P[k].bytes

\* a finished copy of the 700-byte source reported one sector, then the
\* capped count, then the 100% report
C8_Witness ==
    \E j \in Jobs :
        /\ wk[j].samplesOK
        /\ Len(notes[j]) = 4
        /\ notes[j][1].bytes = SECTOR_BYTES
        /\ notes[j][2].bytes = 700
        /\ notes[j][3].bytes = 700
        /\ notes[j][4] = Completion("Complete")

----------------------------------------------------------------------------
(* C9 *)

\* C9: the completion notification is the last one of its job: in the
\* callbacks the writer has invoked nothing follows complete_cb, and in the
\* main loop nothing is run after write_complete_idle and nothing is left
\* posted.
C9_CompletionIsLast ==
    /\ \A j \in Pids : \A i \in 1..Len(notes[j]) :
          notes[j][i].kind = "complete" => i = Len(notes[j])
    /\ \A i \in 1..Len(delivered) :
          delivered[i].kind = "complete" => (i = Len(delivered) /\ idleq = <<>>)

\* the main loop has run two progress updates and then the completion
C9_Witness ==
    /\ Len(delivered) >= 3
    /\ delivered[Len(delivered)].kind = "complete"
    /\ \A i \in 1..(Len(delivered) - 1) : delivered[i].kind = "progress"

----------------------------------------------------------------------------
(* C10 *)

\* C10: every read or write of state, cancel_requested, dd_pid and
\* thread_running is made by a thread that holds the writer's mutex.
C10_AllAccessLocked == \A a \in acc : a.locked


----------------------------------------------------------------------------
(* C11: at most one write job is active per writer.  While a job is running *)
(* a further iso_writer_start returns false, and under any interleaving of  *)
(* concurrent start requests at most one writer thread is alive.            *)
C11_OneJobAtATime == nthreads <= 1

----------------------------------------------------------------------------
(* C12 *)

\* the last callback of copy j
LastNote(j) == notes[j][Len(notes[j])]

\* C12: when the copy process exits with status zero the writer flushes, then
\* reports 100%, then ends in Complete (writer_thread) or returns true
\* (iso_write_sync); when it exits otherwise the job ends in Error or returns
\* false, and then nothing is reported as progress once the exit was seen.
\* Stated on the steps the writer takes after it has reaped the process.
C12_ExitStatusDecides ==
    [][/\ \A j \in Pids :
             (/\ dd[j].st = "reaped"
              /\ Len(notes'[j]) > Len(notes[j])
              /\ notes'[j][Len(notes'[j])].kind = "progress")
             => /\ j \in syncs
                /\ IF j = SyncPid THEN sy.ret = "true" ELSE writer.state = "Complete"
       /\ (sy.pc = "final" /\ sy'.pc = "ret" /\ sy.ret = "true")
             => /\ SyncPid \in syncs
                /\ notes'[SyncPid] = Append(notes[SyncPid], Progress(sy.iso, sy.iso))
       /\ \A j \in Jobs :
             (Len(notes'[j]) > Len(notes[j]) /\ notes'[j][Len(notes'[j])].kind = "complete")
             => LET st == notes'[j][Len(notes'[j])].state
                IN /\ st = "Complete"
                         => /\ j \in syncs
                            /\ Len(notes[j]) > 0
                            /\ LastNote(j) = Progress(writer.iso_size, writer.iso_size)
                   /\ st = "Error" => (j \notin syncs /\ writer.state = "Error")
      ]_vars

----------------------------------------------------------------------------
(* C13 *)

\* C13: the state becomes Cancelled only from Writing and only with a
\* cancellation requested, and when the worker acts on the request (it sends
\* SIGTERM and leaves the poll loop for the cancelled exit) the copy process
\* has not exited yet.
C13_CancelledOnlyWhileCopying ==
    [][/\ (writer'.state = "Cancelled" /\ writer.state /= "Cancelled")
             => (writer.state = "Writing" /\ writer.cancel_requested)
       /\ \A k \in kills' : k.by \in Jobs => k.st = "running"
      ]_vars

----------------------------------------------------------------------------
(* C14 *)

LeftWriting == {"Syncing", "Complete", "Error", "Cancelled"}

\* C14: iso_writer_cancel called when the state is Syncing, Complete, Error or
\* Cancelled sends no signal and changes neither the state nor the worker,
\* the copy process or the callbacks made; and the completion a job reports
\* is the state its worker stored, whatever was requested after that store.
C14_LateCancelHasNoEffect ==
    [][/\ (call.pc = "ca_body" /\ call'.pc = "idle" /\ writer.state \in LeftWriting)
             => /\ kills' = {}
                /\ writer'.state = writer.state
                /\ writer'.dd_pid = writer.dd_pid
                /\ UNCHANGED <<wk, dd, notes, syncs>>
       /\ \A j \in Jobs :
             (Len(notes'[j]) > Len(notes[j]) /\ notes'[j][Len(notes'[j])].kind = "complete")
             => notes'[j][Len(notes'[j])].state = writer.state
      ]_vars

\* iso_writer_cancel has just returned from a call made while the job was
\* flushing; the copy process had been reaped
C14_Witness ==
    /\ writer.state = "Syncing"
    /\ call.pc = "idle"
    /\ \E a \in acc : a.thread = Main /\ a.field = "cancel_requested" /\ a.op = "write"
    /\ writer.cancel_requested
    /\ dd[Worker].st = "reaped"

----------------------------------------------------------------------------
(* C15 *)

\* C15: a configuration error is surfaced before the first destructive call
\* of the job: when format_partition finds that the mkfs tool of the
\* requested filesystem is not installed and the job fails for it, no
\* partition table was written, nothing was formatted, copied or extracted.
C15_ConfigErrorBeforeDestruction ==
    [][(/\ op.pc \in {"esp_format", "x_format", "format"}
        /\ op'.pc = "exited"
        /\ calls' = calls)
       => \A i \in 1..Len(calls) :
             calls[i].call \notin {"table", "format", "dd", "extract"}
      ]_vars

----------------------------------------------------------------------------
(* C16 *)

Destructive == {"table", "format", "dd", "extract"}

\* C16: a partition-table write, format, raw copy or extraction is made only
\* after the user accepted, for this job, a confirmation that names the
\* device the call is made on, its size and the erasure; and write_thread_func
\* runs only after the confirmation was accepted.
C16_ConfirmedBeforeDestruction ==
    /\ \A i \in 1..Len(calls) :
          calls[i].call \in Destructive =>
             /\ ui.confirm.accepted
             /\ ui.confirm.erase
             /\ ui.confirm.device = calls[i].device
             /\ ui.confirm.size = format_size(DevSize(calls[i].device))
    /\ op.pc \notin {"none", "dialog"} => (ui.confirm.accepted /\ ui.confirm.device = op.device_path)

\* the accepted job on the 512.0 MB disk /dev/sdb has written the table and
\* formatted the partition
C16_Witness ==
    /\ ui.confirm = [device |-> S_dev \o S_sdb, size |-> [tenths |-> 5120, unit |-> "MB"],
                     erase |-> TRUE, accepted |-> TRUE]
    /\ CallsNamed("table") /= {}
    /\ CallsNamed("format") /= {}

----------------------------------------------------------------------------
(* C17 *)

\* the start request asks for file-copy mode
ExtractRequested == ui.request.write_iso /\ ui.request.iso_extract

\* the source has UEFI boot files, is not a Windows image, and FAT32 is chosen
ExtractEligible ==
    /\ ~ui.request.info.null
    /\ ui.request.info.has_efi
    /\ ~ui.request.info.is_windows
    /\ ui.request.fs = "FAT32"

\* C17: a job is in file-copy mode only if it was requested with a source
\* that has UEFI boot files and is not a Windows image, and with FAT32; a
\* request for file-copy mode that does not meet this ends in an error status
\* with no job; a request for file-copy mode never yields a job in another
\* mode, and a job keeps its mode.
C17_ExtractOnlyWhenEligible ==
    /\ []((ui.pc = "dialog" /\ op.iso_extract) => (ExtractRequested /\ ExtractEligible))
    /\ []((ExtractRequested /\ ~ExtractEligible) =>
            /\ ui.pc = "ready"
            /\ op = OpNone
            /\ ui.status \in {"Please select an ISO image",
                              "ISO is larger than the target device",
                              "ISO file copy needs xorriso, bsdtar, or 7z",
                              "Windows ISO extraction not supported yet",
                              "ISO file copy requires UEFI boot files",
                              "ISO file copy requires UEFI target",
                              "ISO file copy requires FAT32"})
    /\ []((ExtractRequested /\ op.pc /= "none") => (op.write_iso /\ op.iso_extract))
    /\ [][(op.pc /= "none" /\ op'.pc /= "none")
             => (op'.write_iso = op.write_iso /\ op'.iso_extract = op.iso_extract)]_vars

\* a request for file-copy mode with an image without UEFI boot files was
\* refused, and no job exists
C17_Witness ==
    /\ ExtractRequested
    /\ ~ui.request.info.has_efi /\ ~ui.request.info.null
    /\ ui.status = "ISO file copy requires UEFI boot files"
    /\ op = OpNone

----------------------------------------------------------------------------
(* C18 *)

\* C18: when iso_extract_to_partition returns, the partition it mounted on
\* its temporary directory is no longer mounted there, whether the script
\* succeeded or the extraction or the flush failed.
C18_UnmountedAtReturn ==
    (xt.pc = "ret" /\ xt.mounted) => ~DirMounted

\* the call returns failure after the partition had been mounted
C18_Witness ==
    /\ xt.pc = "ret"
    /\ xt.mounted
    /\ xt.ret = "false"
    /\ xt.pulses = <<0, 0>>

----------------------------------------------------------------------------
(* C20 *)

\* C20: format_partition returns true exactly when the tool process it
\* forked ended by a normal exit with status 0; with no process forked, an
\* exec that failed, a non-zero exit or a death by signal it returns false;
\* and it does not return while the process is running.
C20_SuccessIffExitZero ==
    fm.pc = "ret" =>
        /\ (fm.ret = "true") <=> (fm.child = "exit0")
        /\ fm.child /= "running"
        /\ fm.child /= "none" => fm.reaped

\* the tool was polled once while running, was then killed by a signal, and
\* the call returned false
C20_Witness ==
    /\ fm.pc = "ret"
    /\ fm.child = "signaled"
    /\ fm.polls = 1
    /\ fm.ret = "false"

----------------------------------------------------------------------------
(* C19 *)

\* C19: in partition_create_bootable, _single and _single_efi a failed table
\* write or partition add is the last thing the operation does: the call
\* returns false from that step, nothing is written after it, and what the
\* earlier steps wrote stays on the disk.
C19_FailureEndsTheLayout ==
    [][/\ (pt.pc \in {"table", "add1", "add2"} /\ pt'.ret = "false")
             => (pt'.pc = "ret" /\ disk' = disk)
       /\ (pt.pc = "sfdisk" /\ pt'.ret = "false") => pt'.pc = "ret"
       /\ (pt.ret = "false" /\ pt.pc /= "none")
             => (disk' = disk /\ calls' = calls /\ pt'.ret = "false")
      ]_vars

\* partition_create_bootable has returned false with the ESP as the only
\* partition of the new GPT
C19_Witness ==
    /\ pt.pc = "ret"
    /\ pt.ret = "false"
    /\ pt.fn = "bootable"
    /\ disk.label = LabelOf("GPT")
    /\ Len(disk.parts) = 1

----------------------------------------------------------------------------
(* C21 *)

\* C21: when the caller is not root, a tool (sfdisk, mkfs, dd, the extract
\* script) is only ever started by pkexec, the first word of the command line
\* executed; and when pkexec is nowhere to be found the launch ends with a
\* failure status and the tool has not run.
C21_UnprivilegedGoesThroughLauncher ==
    /\ (px.pc = "tool" \/ px.ran) /\ ~px.root =>
          px.argv /= <<>> /\ px.argv[1] = "pkexec"
    /\ px.pc = "done" /\ ~px.root /\ ~px.fixed /\ ~px.inpath =>
          ~px.ran /\ px.rc \in {"minus1", "exit127"}

\* an unprivileged caller's mkfs is running, started by pkexec
C21_Witness ==
    /\ px.pc = "tool"
    /\ ~px.root
    /\ px.op = "mkfs"
    /\ px.argv = <<"pkexec", "mkfs">>

----------------------------------------------------------------------------
(* C22 *)

\* C22: whatever table the device carries, a partition_create_table that
\* succeeds leaves an empty table of the requested style; when the call (made
\* directly or through partition_delete_all) has returned true the table has
\* that label and no partition, so a second call in a row ends the same way.
C22_CreateTableLeavesEmptyTable ==
    /\ [][(pt.pc = "table" /\ pt'.pc /= "table" /\ pt'.ret /= "false")
             => disk' = [label |-> LabelOf(pt.style), parts |-> <<>>]]_vars
    /\ [](pt.pc = "ret" /\ pt.fn \in {"table", "delete_all"} /\ pt.ret = "true"
             => disk = [label |-> LabelOf(pt.style), parts |-> <<>>])

\* partition_create_table has returned true on a device that carried two
\* partitions under a label of the requested style
C22_Witness ==
    /\ pt.pc = "ret"
    /\ pt.fn = "table"
    /\ pt.ret = "true"
    /\ pt.found.label = LabelOf(pt.style)
    /\ Len(pt.found.parts) = 2
    /\ disk.parts = <<>>

----------------------------------------------------------------------------
(* C23 *)

\* C23: the string partition_get_path returns is the device path, then "p"
\* exactly when the part of the path after its last "/" ends in a digit or
\* begins with nvme, mmcblk or loop, then the partition number in decimal;
\* /dev/sda with 1 gives /dev/sda1 and /dev/nvme0n1 with 1 gives /dev/nvme0n1p1.
C23_PartitionPathConvention ==
    LET Digits == {"0", "1", "2", "3", "4", "5", "6", "7", "8", "9"}
        Slashes(p) == {i \in 1..Len(p) : p[i] = "/"}
        Base(p) == IF Slashes(p) = {} THEN p
                   ELSE SubSeq(p, (CHOOSE i \in Slashes(p) : \A k \in Slashes(p) : k <= i) + 1,
                               Len(p))
        Begins(b, w) == Len(b) >= Len(w) /\ SubSeq(b, 1, Len(w)) = w
        Infix(p) == LET b == Base(p)
                    IN IF \/ (b /= <<>> /\ b[Len(b)] \in Digits)
                          \/ Begins(b, <<"n", "v", "m", "e">>)
                          \/ Begins(b, <<"m", "m", "c", "b", "l", "k">>)
                          \/ Begins(b, <<"l", "o", "o", "p">>)
                       THEN <<"p">> ELSE <<>>
        Index(n) == CASE n = 0 -> <<"0">> [] n = 1 -> <<"1">> [] n = 2 -> <<"2">>
                      [] n = 9 -> <<"9">> [] n = 10 -> <<"1", "0">>
                      [] n = 128 -> <<"1", "2", "8">>
    IN pp.pc = "returned" =>
          /\ pp.path = pp.device \o Infix(pp.device) \o Index(pp.part_number)
          /\ (pp.device = S_dev \o S_sda /\ pp.part_number = 1)
                => pp.path = <<"/", "d", "e", "v", "/", "s", "d", "a", "1">>
          /\ (pp.device = S_dev \o <<"n", "v", "m", "e", "0", "n", "1">> /\ pp.part_number = 1)
                => pp.path = <<"/", "d", "e", "v", "/", "n", "v", "m", "e", "0", "n", "1", "p", "1">>

\* partition_get_path has returned /dev/nvme0n1p1
C23_Witness ==
    /\ pp.pc = "returned"
    /\ pp.part_number = 1
    /\ pp.path = <<"/", "d", "e", "v", "/", "n", "v", "m", "e", "0", "n", "1", "p", "1">>

----------------------------------------------------------------------------
(* C24 *)

\* C24: whatever the scan reports and whatever is mounted, every entry of the
\* list device_enumerate returns is a disk of the scan whose ID_BUS is "usb",
\* whose name does not begin with loop, ram or zram and none of whose
\* mountpoints in the mount table of the call is forbidden; and the list
\* holds at most MAX_DEVICES = 64 entries.
C24_ListedAreUsbAndSafe ==
    LET Begins(b, w) == Len(b) >= Len(w) /\ SubSeq(b, 1, Len(w)) = w
        NameOf(path) == SubSeq(path, Len(S_dev) + 1, Len(path))
    IN /\ MAX_DEVICES = 64
       /\ Len(devices) <= 64
       /\ \A n \in 1..Len(devices) :
             LET d == devices[n]
             IN /\ \E k \in 1..Len(udev) :
                      /\ udev[k].sysname = d.name
                      /\ udev[k].devnode = d.path
                      /\ udev[k].id_bus = <<"u", "s", "b">>
                /\ ~Begins(d.name, <<"l", "o", "o", "p">>)
                /\ ~Begins(d.name, <<"r", "a", "m">>)
                /\ ~Begins(d.name, <<"z", "r", "a", "m">>)
                /\ \A i \in 1..Len(procMounts) :
                      Begins(NameOf(procMounts[i].fsname), d.name)
                         => ~ForbiddenPath(procMounts[i].dir)

\* a scan of more USB disks than the list holds, the first of them in use
\* under /home/: the list is full
C24_Witness ==
    /\ Len(udev) > 64
    /\ Len(devices) = 64
    /\ \E i \in 1..Len(procMounts) :
          /\ procMounts[i].fsname = S_dev \o S_sdb \o <<"1">>
          /\ procMounts[i].dir = S_homeU

----------------------------------------------------------------------------
(* C25 *)

\* C25: iso_writer_cancel never sends SIGTERM to a process id whose process
\* the worker has already waited for: every signal the calling thread sends
\* goes to a copy process that has not been reaped.
C25_CancelNeverSignalsReaped ==
    \A k \in kills : k.by = Main => k.st /= "reaped"

----------------------------------------------------------------------------
(* C26 *)

----------------------------------------------------------------------------
(* C27 *)

\* the completion callbacks the job has invoked
Completions(j) == SelectSeq(notes[j], LAMBDA n : n.kind = "complete")

\* C27: a job whose thread iso_writer_start created invokes the completion
\* callback at most once; the callback carries the state stored in the writer
\* at that moment, which is Complete, Error or Cancelled; the worker clears
\* thread_running only when the callback has run; and, the copy process
\* ending and the scheduler being fair, every such job gets there.
C27_CompletionExactlyOnce ==
    /\ [](\A j \in Jobs : Len(Completions(j)) <= 1)
    /\ [][\A j \in Jobs :
             Len(Completions(j)') > Len(Completions(j))
                => /\ writer.state \in Terminal
                   /\ Completions(j)'[1].state = writer.state
                   /\ writer.thread_running
                   /\ writer'.state = writer.state]_vars
    /\ [][(writer.thread_running /\ ~writer'.thread_running /\ wk'[Worker].pc = "done")
             => Len(Completions(Worker)) = 1]_vars
    /\ (wk[Worker].pc = "t_lock") ~> (wk[Worker].pc = "done" /\ Len(Completions(Worker)) = 1)

\* the job has ended in Error and said so once; iso_writer_is_running is false
C27_Witness ==
    /\ wk[Worker].pc = "done"
    /\ ~writer.thread_running
    /\ writer.state = "Error"
    /\ Completions(Worker) = <<Completion("Error")>>

----------------------------------------------------------------------------
(* C28 *)

\* C28: a cancellation requested while the job is Writing is acted on at the
\* worker's next poll at the latest (the worker that reads the flag set sends
\* SIGTERM to the copy process in that same step), and, under a fair
\* scheduler, a job cancelled while Writing whose running copy process was
\* sent the signal reaches Cancelled.
C28_CancelReachesCancelled ==
    /\ [][(wk[Worker].pc = "l_cancel" /\ writer.cancel_requested
             /\ wk'[Worker].pc /= "l_cancel")
             => \E k \in kills' : k.by = Worker /\ k.pid = Worker]_vars
    /\ (Worker \in cancelW /\ dd[Worker].sig) ~> (writer.state = "Cancelled")
----------------------------------------------------------------------------
(* C29 *)

\* the write_complete_idle sources posted so far: waiting in the main loop or run
CompletionsPosted ==
    Len(SelectSeq(idleq, LAMBDA x : x.kind = "complete"))
        + Len(SelectSeq(delivered, LAMBDA x : x.kind = "complete"))

\* the stages of write_thread_func that have a stage after them
EarlyStages == {"part_wait", "esp_format", "x_format", "extract"}

\* C29: in write_thread_func each stage runs only after the stage before it
\* succeeded (the partition call with the settle wait, the format of the
\* first partition, the format of the data partition, the file copy or the
\* raw copy); a stage that fails ends the job with success = false and
\* nothing runs after it; and one write_complete_idle is posted per job, when
\* the thread returns.
C29_StagesInOrderOneCompletion ==
    /\ [](CompletionsPosted = IF op.pc = "exited" \/ ui.pc = "finished" THEN 1 ELSE 0)
    /\ [][/\ (op'.pc /= op.pc /\ op'.pc \in {"esp_format", "x_format"})
                => (op.pc = "part_wait" /\ pt.ret = "true")
          /\ (op'.pc /= op.pc /\ op'.pc = "format")
                => \/ op.pc = "part_wait" /\ pt.ret = "true" /\ ~needs_esp
                   \/ op.pc = "esp_format" /\ needs_esp /\ calls' = Append(calls, FormatCall(1))
          /\ (op'.pc /= op.pc /\ op'.pc = "extract")
                => (op.pc = "x_format" /\ calls' = Append(calls, FormatCall(1)))
          /\ (op'.pc /= op.pc /\ op'.pc = "extract_run") => op.pc = "extract"
          /\ (op.pc = "part_wait" /\ pt.pc = "ret" /\ pt.ret /= "true" /\ op' /= op)
                => (op'.pc = "exited" /\ ~op'.success)
          /\ (op.pc \in EarlyStages /\ op'.pc = "exited") => ~op'.success
          /\ (op.pc = "exited")
                => (calls' = calls /\ disk' = disk /\ op'.pc \in {"exited", "none"})
         ]_vars

\* a file-copy job whose format of the first partition failed: the thread has
\* returned with success = false after the partition and the format calls,
\* and its one write_complete_idle waits in the main loop
C29_Witness ==
    /\ op.pc = "exited"
    /\ op.iso_extract
    /\ ~op.success
    /\ Len(calls) > 0
    /\ calls[Len(calls)].call = "format"
    /\ CompletionsPosted = 1
    /\ \E i \in 1..Len(idleq) : idleq[i].kind = "complete"
----------------------------------------------------------------------------
(* C30 *)

\* the table the privileged sfdisk path leaves for a request
SfdiskLayout(fn, dev, style, target, fs) ==
    SfdiskApply([label |-> LabelOf(style), parts |-> <<>>], dev,
                SfdiskScript(fn, style, target, fs), 1)

\* C30: for every style, target and filesystem, a successful
\* partition_create_bootable or partition_create_single_efi leaves the same
\* table (number of partitions, starts and sizes, type codes, boot flags)
\* whether it ran as root through libfdisk or through the sfdisk script.
C30_SameLayoutBothPaths ==
    (pt.pc = "ret" /\ pt.ret = "true" /\ pt.fn \in {"bootable", "single_efi"}) =>
        disk = SfdiskLayout(pt.fn, pt.dev, pt.style, pt.target, pt.fs)

----------------------------------------------------------------------------
(* C31 *)

\* C31: when the confirmation dialog is declined, nothing was done to the
\* target device between the start request and the refusal: no unmount, no
\* table write, no format, no copy, and no worker thread was started.
C31_DeclineLeavesDeviceUntouched ==
    [][(ui.pc = "dialog" /\ ui'.pc = "ready")
          => (calls = <<>> /\ calls' = <<>> /\ op.pc = "dialog" /\ op'.pc = "none")]_vars

----------------------------------------------------------------------------
(* C32 *)

\* the calls that address a partition node of the device by its path
AddressesPartition == {"format", "extract"}

\* C32: between a write of the partition table of the device (the label or a
\* partition, through libfdisk or through sfdisk) and the next format or
\* mount of one of its partitions, a settle wait has taken place.
C32_SettleBeforePartitionNode ==
    \A i \in 1..Len(calls) :
        calls[i].call \in AddressesPartition =>
            \A j \in 1..(i - 1) :
                calls[j].call = "table" =>
                    \E k \in (j + 1)..(i - 1) : calls[k].call = "settle"

\* a format-mode job with an ESP, on the libfdisk path, has formatted both
\* partitions after the table, the two partitions and the wait
C32_Witness ==
    /\ Cardinality(CallsNamed("table")) = 3
    /\ Cardinality(CallsNamed("settle")) = 1
    /\ Cardinality(CallsNamed("format")) = 2

----------------------------------------------------------------------------
(* C33 *)

\* C33: a poll of writer_thread whose read of the sector statistics failed
\* (get_device_sectors_written returned 0 while the counter was above 0)
\* reports a byte count that is not below the count reported before it and
\* that is the source size only when that was already reported.
C33_FailedReadIsZeroDelta ==
    [][\A j \in Jobs :
          (/\ wk[j].pc = "l_progress" /\ wk'[j].pc = "l_lock"
           /\ sectors > 0 /\ wk'[j].lastSample = 0)
          => LET P == ProgressNotes(j)
                 prev == IF P = <<>> THEN 0 ELSE P[Len(P)].bytes
                 new == notes'[j][Len(notes'[j])].bytes
             IN /\ new >= prev
                /\ new = writer.iso_size => prev = writer.iso_size]_vars

----------------------------------------------------------------------------
(* C34 *)

\* what ioctl(BLKSSZGET) gives for a disk: 512-byte or 4096-byte sectors
LogicalSectorSizes == {SECTOR_BYTES, 8 * SECTOR_BYTES}

\* C34: on every poll of writer_thread the byte count handed to the progress
\* callback is the smaller of the source size and (the counter read at this
\* poll - the counter read before dd was started) times the sector size of
\* the destination device, whatever that sector size is.
C34_BytesAreDeltaTimesSectorSize ==
    [][\A j \in Jobs :
          (wk[j].pc = "l_progress" /\ wk'[j].pc = "l_lock")
          => \A sector_size \in LogicalSectorSizes :
                LET scaled == (wk'[j].lastSample - wk[j].baseline) * sector_size
                IN notes'[j][Len(notes'[j])].bytes
                      = IF scaled > writer.iso_size THEN writer.iso_size ELSE scaled]_vars

----------------------------------------------------------------------------
(* C35 *)

\* the positions of the calling thread inside iso_writer_start
InStart == {"st_lock", "st_check", "st_stat", "st_init", "st_create"}

\* C35: no step of iso_writer_start writes the state field, and a call that
\* returns false (null argument, a job already running, stat fails,
\* pthread_create fails) has created no thread, started no dd and invoked no
\* callback.
C35_FailedStartChangesNothing ==
    [][/\ (call.pc \in InStart /\ call' /= call) => writer'.state = writer.state
       /\ (/\ call.pc \in {"idle", "st_check", "st_stat", "st_create"}
           /\ call' /= call /\ call'.pc = "idle" /\ call'.ret = "false")
          => /\ writer'.state = writer.state
             /\ nthreads' = nthreads
             /\ wk' = wk /\ dd' = dd /\ notes' = notes /\ syncs' = syncs
      ]_vars

\* iso_writer_start has returned false from a failed pthread_create: the
\* parameters were stored, no thread was ever created and the state is Idle
C35_Witness ==
    /\ call.pc = "idle"
    /\ call.ret = "false"
    /\ writer.iso_size > 0
    /\ ~writer.thread_running
    /\ nthreads = 0
    /\ writer.state = "Idle"

----------------------------------------------------------------------------
(* C36 *)

\* C36: a successful partition_create_bootable with style MBR or target BIOS
\* leaves exactly one partition: it starts at the default offset, ends at
\* the last usable sector of the device, and carries the boot flag exactly
\* when the style is MBR.
C36_SinglePartitionFallback ==
    (/\ pt.pc = "ret" /\ pt.ret = "true" /\ pt.fn = "bootable"
     /\ (pt.style = "MBR" \/ pt.target = "BIOS")) =>
        /\ Len(disk.parts) = 1
        /\ disk.parts[1].start = MiB \div fdisk_sector_size
        /\ disk.parts[1].start + disk.parts[1].size - 1 = LastUsable(pt.dev, disk.label)
        /\ disk.parts[1].boot <=> (pt.style = "MBR")

\* partition_create_bootable for MBR and UEFI has returned true through
\* libfdisk (the label and the partition were written in two steps) with
\* one bootable partition
C36_Witness ==
    /\ pt.pc = "ret" /\ pt.ret = "true" /\ pt.fn = "bootable"
    /\ pt.style = "MBR" /\ pt.target = "UEFI"
    /\ Len(calls) = 2
    /\ Len(disk.parts) = 1
    /\ disk.parts[1].boot

----------------------------------------------------------------------------
(* C37 *)

\* C37: the fractions format_partition hands to its progress callback never
\* decrease; those reported while it waits for the tool are at most 0.99;
\* and 1.0 is reported once, as the last value, after the tool has ended.
C37_RampBelowOneThenOne ==
    LET P == fm.pulses
    IN /\ \A i \in 1..Len(P) : \A k \in i..Len(P) : P[i] <= P[k]
       /\ \A i \in 1..Len(P) :
             IF i = Len(P) /\ fm.pc = "ret" /\ fm.child /= "none"
             THEN P[i] = 100 /\ fm.child /= "running"
             ELSE P[i] <= 99
       /\ (fm.progress /\ fm.pc = "ret" /\ fm.child /= "none") => P /= <<>>

\* the tool ran for more than 50 rounds of the loop: 0.98 was followed by
\* 0.99 twice and then by the final 1.0
C37_Witness ==
    /\ fm.pc = "ret"
    /\ fm.polls = 51
    /\ Len(fm.pulses) = 53
    /\ fm.pulses[50] = 98
    /\ fm.pulses[51] = 99
    /\ fm.pulses[52] = 99
    /\ fm.pulses[53] = 100

----------------------------------------------------------------------------
(* C38 *)

\* C38: the vector build_mkfs_args returns holds, in this order and nothing
\* else: the command of the kind; -F 16 or -F 32 exactly for FAT16 or FAT32;
\* -Q exactly for NTFS with quick_format; the label option and the label
\* exactly for a non-empty label; the cluster option exactly for a cluster
\* size above 0 and a tool that has the option, with cluster_size / 512 for
\* the FAT kinds and cluster_size for the others; the partition path last.
\* With its terminating null it fits the 16 slots.
C38_MkfsArgumentVector ==
    (pf.pc = "returned" /\ pf.fn = "build_mkfs_args" /\ ~pf.null) =>
        LET A == pf.args
            info == mkfs_commands[pf.fs_type]
            fat == pf.fs_type \in {"FAT16", "FAT32"}
            Slots(flag) == {i \in 2..(Len(A) - 1) : A[i] = flag}
            Follows(flag, value) == \A i \in Slots(flag) : A[i + 1] = value
            quick == pf.fs_type = "NTFS" /\ pf.quick_format
            labelled == pf.label \notin {NULL, ""}
            sized == pf.cluster_size > 0 /\ info.cluster_opt /= NULL
            Count(b, n) == IF b THEN n ELSE 0
        IN /\ A[1] = info.command
           /\ (Slots("-F") /= {}) <=> fat
           /\ fat => A[2] = "-F" /\ A[3] = (IF pf.fs_type = "FAT16" THEN "16" ELSE "32")
           /\ (Slots("-Q") /= {}) <=> quick
           /\ (Slots(info.label_opt) /= {}) <=> labelled
           /\ Follows(info.label_opt, pf.label)
           /\ (info.cluster_opt /= NULL /\ Slots(info.cluster_opt) /= {}) <=> sized
           /\ sized => Follows(info.cluster_opt,
                               IF fat THEN ToString(pf.cluster_size \div 512)
                               ELSE ToString(pf.cluster_size))
           /\ \A i \in Slots(info.label_opt) : \A k \in Slots(info.cluster_opt) : i < k
           /\ A[Len(A)] = "/dev/sdb1"
           /\ Len(A) = 2 + Count(fat, 2) + Count(quick, 1) + Count(labelled, 2) + Count(sized, 2)
           /\ Len(A) + 1 <= MKFS_ARG_SLOTS

\* the longest vector: a labelled FAT32 request with 4 KiB clusters
C38_Witness ==
    /\ pf.pc = "returned"
    /\ pf.args = <<"mkfs.fat", "-F", "32", "-n", "RUFUX", "-s", "8", "/dev/sdb1">>

----------------------------------------------------------------------------
(* C39 *)

\* C39: partition_add gives the new partition the type of the entry's
\* filesystem kind: on a DOS label 0x06 for FAT16, 0x0C for FAT32, 0x07 for
\* NTFS and exFAT, 0x83 for ext2, ext3 and ext4 and 0x0C for any other kind;
\* on a GPT the Linux type for ext2, ext3 and ext4 and the Microsoft basic
\* data type for any other kind.  partition_add_efi gives it 0xEF on a DOS
\* label and the EFI System type on a GPT.
C39_TypeFromFixedMapping ==
    (pf.pc = "returned" /\ pf.fn \in {"partition_add", "partition_add_efi"}) =>
        LET ext == pf.fs_type \in {"EXT2", "EXT3", "EXT4"}
        IN pf.type =
              IF pf.fn = "partition_add_efi"
              THEN (IF pf.style = "MBR" THEN "EF" ELSE "C12A7328-F81F-11D2-BA4B-00A0C93EC93B")
              ELSE IF pf.style = "MBR"
              THEN (IF pf.fs_type = "FAT16" THEN "06"
                    ELSE IF pf.fs_type = "FAT32" THEN "0C"
                    ELSE IF pf.fs_type \in {"NTFS", "EXFAT"} THEN "07"
                    ELSE IF ext THEN "83"
                    ELSE "0C")
              ELSE (IF ext THEN "0FC63DAF-8483-4772-8E79-3D69D8477DE4"
                    ELSE "EBD0A0A2-B9E5-4433-87C0-68B6B72699C7")

\* partition_add has added an exFAT partition to a DOS label
C39_Witness ==
    /\ pf.pc = "returned"
    /\ pf.fn = "partition_add"
    /\ pf.fs_type = "EXFAT"
    /\ pf.style = "MBR"
    /\ pf.type = "07"
============================================================================
